---- MODULE Spec2Model ----
(***************************************************************************)
(* Verification model of the qsp planner (andreseduardop/qsp).             *)
(*                                                                         *)
(* Part 1: the schedule component's Model (components/schedule.js): the    *)
(* time utilities, getAll/_write and the five mutating operations.         *)
(*                                                                         *)
(* Strings that the code parses (times, texts) are sequences of            *)
(* one-character strings, so that the regular expressions, trim() and the  *)
(* HH:MM formatting are computed as the code computes them.                *)
(***************************************************************************)
EXTENDS Integers, Sequences, FiniteSets, TLC

(* ------------------------------------------------------------------ *)
(* Bounds of the model                                                 *)
(* ------------------------------------------------------------------ *)
\* number of uid() values handed out in one behaviour
MaxIds == 3
\* number of Model calls in one behaviour
MaxCalls == 4

(* ------------------------------------------------------------------ *)
(* Program constants                                                   *)
(* ------------------------------------------------------------------ *)
END_ID == "__END__"
MIN_GAP_MINUTES == 15
MinutesPerDay == 1440

(* ------------------------------------------------------------------ *)
(* Characters and string helpers                                       *)
(* ------------------------------------------------------------------ *)
Digits == <<"0", "1", "2", "3", "4", "5", "6", "7", "8", "9">>

\* \d
IsDigit(c) == \E i \in 1..10 : Digits[i] = c

\* Number("7") = 7
DigitVal(c) == (CHOOSE i \in 1..10 : Digits[i] = c) - 1

\* \s
IsSpace(c) == c = " "

Min2(a, b) == IF a <= b THEN a ELSE b
Max2(a, b) == IF a >= b THEN a ELSE b

RECURSIVE TrimStart(_)
TrimStart(s) ==
  IF s # <<>> /\ IsSpace(Head(s)) THEN TrimStart(Tail(s)) ELSE s

RECURSIVE TrimEnd(_)
TrimEnd(s) ==
  IF s # <<>> /\ IsSpace(s[Len(s)]) THEN TrimEnd(SubSeq(s, 1, Len(s) - 1)) ELSE s

\* String.prototype.trim
Trim(s) == TrimEnd(TrimStart(s))

\* /^\d{2}:\d{2}$/.test(s)
IsHHMM(s) ==
  /\ Len(s) = 5
  /\ IsDigit(s[1]) /\ IsDigit(s[2])
  /\ s[3] = ":"
  /\ IsDigit(s[4]) /\ IsDigit(s[5])

\* String(n).padStart(2, "0") for 0 <= n <= 99
Pad2(n) == <<Digits[(n \div 10) + 1], Digits[(n % 10) + 1]>>

(* ------------------------------------------------------------------ *)
(* Time utilities (schedule.js)                                        *)
(* ------------------------------------------------------------------ *)
\* "HH:MM" -> minutes; the regular expression tolerates surrounding
\* white space, a string that does not match counts as 00:00, and hour
\* and minute are clamped to 0..23 and 0..59.
toMinutes(hhmm) ==
  LET t   == Trim(hhmm)
      m   == IsHHMM(t)
      h   == IF m THEN DigitVal(t[1]) * 10 + DigitVal(t[2]) ELSE 0
      min == IF m THEN DigitVal(t[4]) * 10 + DigitVal(t[5]) ELSE 0
  IN  Max2(0, Min2(23, h)) * 60 + Max2(0, Min2(59, min))

fromMinutes(minutes) ==
  LET total == ((minutes % MinutesPerDay) + MinutesPerDay) % MinutesPerDay
  IN  Pad2(total \div 60) \o <<":">> \o Pad2(total % 60)

diffForwardNoWrap(a, b) == toMinutes(b) - toMinutes(a)

diffForward(a, b) ==
  LET d == toMinutes(b) - toMinutes(a)
  IN  IF d >= 0 THEN d ELSE d + MinutesPerDay

addMinutes(hhmm, minutes) == fromMinutes(toMinutes(hhmm) + minutes)

(* ------------------------------------------------------------------ *)
(* Literals used by the code                                           *)
(* ------------------------------------------------------------------ *)
T0800   == <<"0", "8", ":", "0", "0">>
T2359   == <<"2", "3", ":", "5", "9">>
EndText == <<"E", "n", "d">>

T2330   == <<"2", "3", ":", "3", "0">>
\* matches \d{2}:\d{2} but is no time of day
T2460   == <<"2", "4", ":", "6", "0">>
\* accepted by toMinutes' expression, not by updateTime's
TPad0900 == <<" ", "0", "9", ":", "0", "0">>

(* ------------------------------------------------------------------ *)
(* Inputs                                                              *)
(* ------------------------------------------------------------------ *)
\* values uid() returns, in the order it returns them
UidPool == <<"a", "b", "c", "d", "e", "f", "g", "h">>

uid(n) == UidPool[n]

TextInputs == {<<" ">>, <<" ", "x">>}
TimeInputs == {T0800, T2330, T2460, TPad0900}
IdInputs   == {uid(n) : n \in 1..MaxIds} \cup {END_ID}
IndexInputs == (0 - 1)..MaxIds

(* ------------------------------------------------------------------ *)
(* State                                                               *)
(* ------------------------------------------------------------------ *)
VARIABLES
  content,   \* components.schedule.content of the active project (array of {id, text, time})
  nextId,    \* number of the next value uid() returns
  lastCall,  \* the Model method called last, with its arguments
  before,    \* content when that call started
  calls,     \* number of Model calls made so far
  log,       \* what that call did, in order: "write" (setComponentContent), "change" (dispatchEvent)
  store,       \* localStorage: key -> stored text
  storeBefore, \* localStorage when the last storage or list-model call started
  listCall,    \* the storage function or list-model method called last, with its arguments
  result,      \* what that call returned, or that it threw
  activeUL,      \* drag-and-drop helper: the list that is the active drag context, or null
  activeAPI,     \* the utilities of that list, exposed to the document's handlers, or null
  draggingId,    \* per attached list: the id of the item being dragged, or null
  guideAttr,     \* per list and item: the data-dnd-guide attribute ("none" when not set)
  guideClass,    \* per list: the items with a guide class, as <<id, kind>>
  draggingClass, \* per list: the items with the dragging class
  reorders,      \* the onReorder calls since the last dragstart, in order
  gesture,       \* the browser's drag gesture: its phase, and where it started
  lastEvent,     \* the drag event dispatched last
  hosts,         \* coordinator: the component hosts in the page, with their data attributes
  pendingMounts, \* coordinator: the mountActiveProjectComponents calls waiting at their await
  createInFlight \* the list Controller: its createInFlight flag

dragVars ==
  <<activeUL, activeAPI, draggingId, guideAttr, guideClass, draggingClass,
    reorders, gesture, lastEvent>>

mountVars == <<hosts, pendingMounts>>
controllerVars == <<createInFlight>>

vars ==
  <<content, nextId, lastCall, before, calls, log, store, storeBefore, listCall, result,
    dragVars, mountVars, controllerVars>>

\* the variables of the schedule Model, and those of the storage module and
\* the list models built on it
scheduleVars == <<content, lastCall, before>>
storageVars  == <<store, storeBefore, listCall, result>>

Item(id, text, time) == [id |-> id, text |-> text, time |-> time]

Call(op, id, text, time, toIndex) ==
  [op |-> op, id |-> id, text |-> text, time |-> time, toIndex |-> toIndex]

(* ------------------------------------------------------------------ *)
(* Sequence helpers (Array.prototype)                                  *)
(* ------------------------------------------------------------------ *)
\* arr.filter((i) => i.id !== id)
WithoutId(arr, id) == SelectSeq(arr, LAMBDA i : i.id # id)

\* arr.findIndex((i) => i.id === id), 0-based, -1 when absent
findIndex(arr, id) ==
  IF \E k \in 1..Len(arr) : arr[k].id = id
  THEN (CHOOSE k \in 1..Len(arr) :
          /\ arr[k].id = id
          /\ \A j \in 1..(k - 1) : arr[j].id # id) - 1
  ELSE 0 - 1

\* arr.splice(i0, 1) on a copy: the array without its element at 0-based i0
spliceOut(arr, i0) == SubSeq(arr, 1, i0) \o SubSeq(arr, i0 + 2, Len(arr))

\* arr.splice(i0, 0, x) on a copy; a start beyond the end means the end
spliceIn(arr, i0, x) ==
  LET at == Min2(i0, Len(arr))
  IN  SubSeq(arr, 1, at) \o <<x>> \o SubSeq(arr, at + 1, Len(arr))

(* ------------------------------------------------------------------ *)
(* Model.getAll / Model._write                                         *)
(* ------------------------------------------------------------------ *)
\* Reads the stored array: every time that is not \d{2}:\d{2} reads as
\* "08:00"; the END item, if stored, is returned once and last, its text
\* defaulting to "End".
getAll(c) ==
  LET time(it) == IF IsHHMM(it.time) THEN it.time ELSE T0800
      norm     == [k \in 1..Len(c) |-> Item(c[k].id, c[k].text, time(c[k]))]
      normal   == SelectSeq(norm, LAMBDA i : i.id # END_ID)
      ends     == SelectSeq(norm, LAMBDA i : i.id = END_ID)
      lastEnd  == ends[Len(ends)]
      endItem  == Item(END_ID,
                       IF lastEnd.text = <<>> THEN EndText ELSE lastEnd.text,
                       lastEnd.time)
  IN  IF ends # <<>> THEN Append(normal, endItem) ELSE normal

\* _write(nextItems): one setComponentContent, then one "change" event
Write(nextItems) ==
  /\ content' = [k \in 1..Len(nextItems) |->
                   Item(nextItems[k].id, nextItems[k].text, nextItems[k].time)]
  /\ log' = <<"write", "change">>

\* a call that returns before it reaches _write
NoWrite ==
  /\ content' = content
  /\ log' = <<>>

hasEnd(items) == \E k \in 1..Len(items) : items[k].id = END_ID

\* items.find((i) => i.id === END_ID), when hasEnd(items)
findEnd(items) == items[findIndex(items, END_ID) + 1]

(* ------------------------------------------------------------------ *)
(* Model.add                                                           *)
(* ------------------------------------------------------------------ *)
\* variant: the new activity takes the `time` argument even when END exists
addResultOwnTime(items, id, t, time) ==
  LET activities == WithoutId(items, END_ID)
  IN  IF activities = <<>> /\ ~hasEnd(items)
      THEN <<Item(id, t, time), Item(END_ID, EndText, addMinutes(time, 60))>>
      ELSE LET updatedEnd == IF hasEnd(items)
                             THEN [findEnd(items) EXCEPT !.time = addMinutes(findEnd(items).time, 60)]
                             ELSE Item(END_ID, EndText, addMinutes(time, 60))
           IN  activities \o <<Item(id, t, time), updatedEnd>>

addResult(items, id, t, time) ==
  LET activities == WithoutId(items, END_ID)
  IN  IF activities = <<>> /\ ~hasEnd(items)
      THEN <<Item(id, t, time), Item(END_ID, EndText, addMinutes(time, 60))>>
      ELSE LET newTime    == IF hasEnd(items) THEN findEnd(items).time ELSE time
               updatedEnd == IF hasEnd(items)
                             THEN [findEnd(items) EXCEPT !.time = addMinutes(findEnd(items).time, 60)]
                             ELSE Item(END_ID, EndText, addMinutes(newTime, 60))
           IN  activities \o <<Item(id, t, newTime), updatedEnd>>

Add(text, time) ==
  LET t == Trim(text) IN
  /\ UNCHANGED <<storageVars, dragVars, mountVars, controllerVars>>
  /\ calls < MaxCalls
  /\ calls' = calls + 1
  /\ t # <<>> => nextId <= MaxIds
  /\ lastCall' = Call("add", "", text, time, 0)
  /\ before' = content
  /\ IF t = <<>>
     THEN NoWrite /\ nextId' = nextId
     ELSE /\ Write(addResult(getAll(content), uid(nextId), t, time))
          /\ nextId' = nextId + 1

(* ------------------------------------------------------------------ *)
(* Model.updateText                                                    *)
(* ------------------------------------------------------------------ *)
\* variant: the END item takes the trimmed text even when it is empty
updateTextResultNoDefault(all, id, t) ==
  LET items == [k \in 1..Len(all) |->
                  IF all[k].id # id THEN all[k]
                  ELSE IF id = END_ID
                       THEN [all[k] EXCEPT !.text = t]
                       ELSE IF t # <<>> THEN [all[k] EXCEPT !.text = t] ELSE all[k]]
  IN  IF id # END_ID /\ t = <<>> THEN WithoutId(items, id) ELSE items

updateTextResult(all, id, t) ==
  LET items == [k \in 1..Len(all) |->
                  IF all[k].id # id THEN all[k]
                  ELSE IF id = END_ID
                       THEN [all[k] EXCEPT !.text = IF t = <<>> THEN EndText ELSE t]
                       ELSE IF t # <<>> THEN [all[k] EXCEPT !.text = t] ELSE all[k]]
  IN  IF id # END_ID /\ t = <<>> THEN WithoutId(items, id) ELSE items

UpdateText(id, text) ==
  /\ UNCHANGED <<storageVars, dragVars, mountVars, controllerVars>>
  /\ calls < MaxCalls
  /\ calls' = calls + 1
  /\ lastCall' = Call("updateText", id, text, <<>>, 0)
  /\ before' = content
  /\ Write(updateTextResult(getAll(content), id, Trim(text)))
  /\ nextId' = nextId

(* ------------------------------------------------------------------ *)
(* Model._stableSortByTime / Model._enforceEndAfterLast                *)
(* ------------------------------------------------------------------ *)
\* variant: ties broken by the reverse of the original index
sortCompareTieReversed(a, b) ==
  LET ta == toMinutes(a.it.time)
      tb == toMinutes(b.it.time)
  IN  IF ta # tb THEN ta - tb ELSE b.idx - a.idx

\* the comparator handed to Array.prototype.sort, on {it, idx} pairs
sortCompare(a, b) ==
  LET ta == toMinutes(a.it.time)
      tb == toMinutes(b.it.time)
  IN  IF ta # tb THEN ta - tb ELSE a.idx - b.idx

\* Array.prototype.sort: the elements in comparator order, elements that
\* compare equal in their original order
RECURSIVE arraySort(_)
arraySort(s) ==
  IF s = <<>> THEN <<>>
  ELSE LET front == arraySort(SubSeq(s, 1, Len(s) - 1))
           x     == s[Len(s)]
           p     == Cardinality({k \in 1..Len(front) : sortCompare(front[k], x) <= 0})
       IN  spliceIn(front, p, x)

\* variant: the activities are left in the order they had
stableSortSkipped(activities) == activities

stableSortByTime(activities) ==
  LET withIndex == [k \in 1..Len(activities) |-> [it |-> activities[k], idx |-> k - 1]]
      sorted    == arraySort(withIndex)
  IN  [k \in 1..Len(sorted) |-> sorted[k].it]

enforceEndAfterLast(endTime, activitiesSorted) ==
  IF activitiesSorted = <<>> THEN endTime
  ELSE LET lastStart == activitiesSorted[Len(activitiesSorted)].time
           gap       == diffForward(lastStart, endTime)
       IN  IF gap < MIN_GAP_MINUTES
           THEN addMinutes(lastStart, MIN_GAP_MINUTES)
           ELSE endTime

(* ------------------------------------------------------------------ *)
(* Model.updateTime                                                    *)
(* ------------------------------------------------------------------ *)
\* variant: the guard tolerates surrounding white space, as toMinutes does
updateTimeAcceptsPadded(hhmm) == IsHHMM(Trim(hhmm))

\* the guard of updateTime: /^\d{2}:\d{2}$/.test(hhmm)
updateTimeAccepts(hhmm) == IsHHMM(hhmm)

updateTimeResult(current, id, hhmm) ==
  LET mapped      == [k \in 1..Len(current) |->
                        IF current[k].id = id THEN [current[k] EXCEPT !.time = hhmm]
                        ELSE current[k]]
      activities  == WithoutId(mapped, END_ID)
      sorted      == stableSortByTime(activities)
      nextEndTime == enforceEndAfterLast(
                       IF hasEnd(mapped) THEN findEnd(mapped).time ELSE T2359, sorted)
      endFinal    == IF hasEnd(mapped)
                     THEN [findEnd(mapped) EXCEPT !.time = nextEndTime]
                     ELSE Item(END_ID, EndText, nextEndTime)
  IN  Append(sorted, endFinal)

UpdateTime(id, time) ==
  /\ UNCHANGED <<storageVars, dragVars, mountVars, controllerVars>>
  /\ calls < MaxCalls
  /\ calls' = calls + 1
  /\ lastCall' = Call("updateTime", id, <<>>, time, 0)
  /\ before' = content
  /\ nextId' = nextId
  /\ IF ~updateTimeAccepts(time)
     THEN NoWrite
     ELSE Write(updateTimeResult(getAll(content), id, time))

(* ------------------------------------------------------------------ *)
(* Model.remove                                                        *)
(* ------------------------------------------------------------------ *)
\* variant: END is not protected
removeRefusesNever(id) == FALSE

\* the guard of remove: END is protected
removeRefuses(id) == id = END_ID

Remove(id) ==
  /\ UNCHANGED <<storageVars, dragVars, mountVars, controllerVars>>
  /\ calls < MaxCalls
  /\ calls' = calls + 1
  /\ lastCall' = Call("remove", id, <<>>, <<>>, 0)
  /\ before' = content
  /\ nextId' = nextId
  /\ IF removeRefuses(id)
     THEN NoWrite
     ELSE Write(WithoutId(getAll(content), id))

(* ------------------------------------------------------------------ *)
(* Model.moveToIndexWithReflow                                         *)
(* ------------------------------------------------------------------ *)
\* variant: the last activity's duration runs to 23:59, not to the sentinel
durationsOfToMidnight(beforeActivities, endTime) ==
  [k \in 1..Len(beforeActivities) |->
     diffForward(beforeActivities[k].time,
                 IF k < Len(beforeActivities) THEN beforeActivities[k + 1].time
                 ELSE T2359)]

\* durations[id]: forward difference to the next item of the pre-move order
durationsOf(beforeActivities, endTime) ==
  [k \in 1..Len(beforeActivities) |->
     diffForward(beforeActivities[k].time,
                 IF k < Len(beforeActivities) THEN beforeActivities[k + 1].time
                 ELSE endTime)]

\* durations[it.id] ?? 0
durationOfId(beforeActivities, endTime, id) ==
  IF findIndex(beforeActivities, id) = 0 - 1 THEN 0
  ELSE durationsOf(beforeActivities, endTime)[findIndex(beforeActivities, id) + 1]

\* variant: the destination is not adjusted for the extraction
moveOrderNoAdjust(beforeActivities, idxDraggedBefore, toIndex) ==
  LET clamped == Max2(0, Min2(Len(beforeActivities), toIndex))
      moved   == beforeActivities[idxDraggedBefore + 1]
  IN  spliceIn(spliceOut(beforeActivities, idxDraggedBefore), clamped, moved)

\* the new order of the activities
moveOrder(beforeActivities, idxDraggedBefore, toIndex) ==
  LET clamped == Max2(0, Min2(Len(beforeActivities), toIndex))
      moved   == beforeActivities[idxDraggedBefore + 1]
      dest    == IF clamped > idxDraggedBefore THEN clamped - 1 ELSE clamped
  IN  spliceIn(spliceOut(beforeActivities, idxDraggedBefore), dest, moved)

\* variant: when the dragged activity was first, the anchor is the time of
\* the activity that was second
anchorTimeOfSecond(beforeActivities, wasFirst) ==
  IF wasFirst THEN beforeActivities[2].time ELSE beforeActivities[1].time

\* the anchor: the start time of the activity that was first
anchorTimeOf(beforeActivities, wasFirst) == beforeActivities[1].time

\* variant: the duration applied at position k is that of the activity that
\* was at position k before the move
RECURSIVE startAtByPosition(_, _, _, _, _)
startAtByPosition(activitiesAfter, beforeActivities, endTime, anchorTime, k) ==
  IF k = 1 THEN anchorTime
  ELSE addMinutes(startAtByPosition(activitiesAfter, beforeActivities, endTime, anchorTime, k - 1),
                  durationsOf(beforeActivities, endTime)[k - 1])

\* start time of the k-th activity of the new order; k = Len + 1 gives the
\* cursor after the last one
RECURSIVE startAt(_, _, _, _, _)
startAt(activitiesAfter, beforeActivities, endTime, anchorTime, k) ==
  IF k = 1 THEN anchorTime
  ELSE addMinutes(startAt(activitiesAfter, beforeActivities, endTime, anchorTime, k - 1),
                  durationOfId(beforeActivities, endTime, activitiesAfter[k - 1].id))

reflowResult(beforeAll, draggedId, toIndex) ==
  LET beforeActivities == WithoutId(beforeAll, END_ID)
      endTimeBefore    == IF hasEnd(beforeAll) THEN findEnd(beforeAll).time ELSE T2359
      idxDraggedBefore == findIndex(beforeActivities, draggedId)
      activitiesAfter  == moveOrder(beforeActivities, idxDraggedBefore, toIndex)
      anchorTime       == anchorTimeOf(beforeActivities, idxDraggedBefore = 0)
      start(k)         == startAt(activitiesAfter, beforeActivities, endTimeBefore, anchorTime, k)
      reflowed         == [k \in 1..Len(activitiesAfter) |->
                             [activitiesAfter[k] EXCEPT !.time = start(k)]]
      currentStart     == start(Len(activitiesAfter) + 1)
      endAfter         == IF hasEnd(beforeAll)
                          THEN [findEnd(beforeAll) EXCEPT !.time = currentStart]
                          ELSE Item(END_ID, EndText, currentStart)
  IN  Append(reflowed, endAfter)

\* the two early returns of moveToIndexWithReflow
reflowReturnsEarly(beforeAll, draggedId) ==
  \/ Len(WithoutId(beforeAll, END_ID)) <= 1
  \/ findIndex(WithoutId(beforeAll, END_ID), draggedId) = 0 - 1

MoveToIndexWithReflow(draggedId, toIndex) ==
  /\ UNCHANGED <<storageVars, dragVars, mountVars, controllerVars>>
  /\ calls < MaxCalls
  /\ calls' = calls + 1
  /\ lastCall' = Call("moveToIndexWithReflow", draggedId, <<>>, <<>>, toIndex)
  /\ before' = content
  /\ nextId' = nextId
  /\ IF reflowReturnsEarly(getAll(content), draggedId)
     THEN NoWrite
     ELSE Write(reflowResult(getAll(content), draggedId, toIndex))

(* ------------------------------------------------------------------ *)
(* core/storage: projects, the active pointer and component content     *)
(* in localStorage                                                      *)
(* ------------------------------------------------------------------ *)
STORAGE_KEY_PROJECT_LIST == "projectList"
STORAGE_KEY_ACTIVE_PROJECT == "activeProject"
PROJECT_KEY_PREFIX == "project:"

\* project ids in use, and the null of an id field
ProjectIds == {"p1", "p2"}
\* what uid() returns for a project created now: an id that no stored
\* project has
projectUid == "p3"
NULL == "<null>"

\* JavaScript values, tagged by kind
JNull == [t |-> "null"]
JUndef == [t |-> "undefined"]
JNum == [t |-> "number"]
JArr(items) == [t |-> "array", items |-> items]

\* what localStorage holds under a key: nothing, a JSON text, or a text
\* that is not JSON
Absent == [t |-> "absent"]
Garbage == [t |-> "garbage"]
JSONstringify(v) == [t |-> "json", v |-> v]

\* JSON.parse(raw): the value, or a SyntaxError
JSONparse(raw) ==
  IF raw.t = "json"
  THEN [threw |-> FALSE, v |-> raw.v]
  ELSE [threw |-> TRUE, v |-> JUndef]

\* the objects the module stores
ActivePointer(id) == [t |-> "object", id |-> id]
ProjectDoc(hasComponents, components, updatedAt) ==
  [t |-> "object", hasComponents |-> hasComponents,
   components |-> components, updatedAt |-> updatedAt]
ProjectList(projects) == [t |-> "object", projects |-> projects]
ProjectEntry(id, title, createdAt, updatedAt) ==
  [id |-> id, title |-> title, createdAt |-> createdAt, updatedAt |-> updatedAt]

keyForProject(id) == PROJECT_KEY_PREFIX \o id

StorageKeys ==
  {STORAGE_KEY_ACTIVE_PROJECT, STORAGE_KEY_PROJECT_LIST}
    \cup {keyForProject(id) : id \in ProjectIds \cup {projectUid}}

getItem(s, key) == s[key]
setItem(s, key, text) == [s EXCEPT ![key] = text]

\* JSON.parse(JSON.stringify(obj)): undefined has no JSON text, so the
\* parse throws; JSON values come back equal
deepCloneThrows(obj) == obj.t = "undefined"
deepClone(obj) == JSONparse(JSONstringify(obj)).v

\* the one element of a singleton: Only({F(x) : x \in {v}}) is F(v) with v
\* evaluated once
Only(S) == CHOOSE x \in S : TRUE

\* { id: null } when the key is absent or unparseable
readActiveProject(s) ==
  LET raw == getItem(s, STORAGE_KEY_ACTIVE_PROJECT) IN
  IF raw.t = "absent" THEN ActivePointer(NULL)
  ELSE IF JSONparse(raw).threw THEN ActivePointer(NULL)
  ELSE JSONparse(raw).v

\* ap?.id ?? null
getActiveProjectId(s) ==
  LET ap == readActiveProject(s) IN
  IF ap.t = "object" THEN ap.id ELSE NULL

\* { id, model }, or null (ok = FALSE) without an active id, without the
\* project's text, or when the text does not parse
noContext == [ok |-> FALSE, id |-> NULL, model |-> JNull]

readActiveProjectModelOrNull(s) ==
  Only({ IF id = NULL THEN noContext
         ELSE Only({ IF raw.t = "absent" THEN noContext
                     ELSE IF JSONparse(raw).threw THEN noContext
                     ELSE [ok |-> TRUE, id |-> id, model |-> JSONparse(raw).v]
                     : raw \in {getItem(s, keyForProject(id))} })
         : id \in {getActiveProjectId(s)} })

\* the component names used, and charAt(0).toUpperCase() + slice(1) on them
ComponentNames == {"checklist", "team", "timeline"}
Capitalized == [checklist |-> "Checklist", team |-> "Team", timeline |-> "Timeline"]

NewComponent(componentName, position) ==
  [name |-> componentName, title |-> Capitalized[componentName],
   content |-> JArr(<<>>), mounted |-> FALSE, position |-> position]

\* index (0-based) of the first component called componentName, -1 if none
findIndexByName(components, componentName) ==
  LET hits == {k \in 1..Len(components) : components[k].name = componentName} IN
  IF hits = {} THEN 0 - 1
  ELSE (CHOOSE k \in hits : \A j \in hits : k <= j) - 1

\* reading a property of null, or setting one on a primitive, is a TypeError
ensureProjectComponentThrows(root) == root.t # "object"

\* root.components, [] when it is not an array
componentsOf(root) == IF root.hasComponents THEN root.components ELSE <<>>

\* the pushed entry takes the position of the last entry before it
withComponentSamePosition(components, componentName) ==
  IF findIndexByName(components, componentName) = 0 - 1
  THEN Append(components, NewComponent(componentName, Len(components)))
  ELSE components

\* the components with an entry for componentName pushed when none has
\* the name
withComponent(components, componentName) ==
  IF findIndexByName(components, componentName) = 0 - 1
  THEN Append(components, NewComponent(componentName, Len(components) + 1))
  ELSE components

\* content that is null becomes []
withContent(components, idx) ==
  IF components[idx + 1].content.t = "null"
  THEN [components EXCEPT ![idx + 1].content = JArr(<<>>)]
  ELSE components

ensureProjectComponent(root, componentName) ==
  Only({ Only({ [root |-> [root EXCEPT !.hasComponents = TRUE,
                                       !.components = withContent(comps, idx)],
                 idx |-> idx]
                : idx \in {findIndexByName(comps, componentName)} })
         : comps \in {withComponent(componentsOf(root), componentName)} })

\* the read persists the document with the entry it ensured
readLeavesEnsured(s, ctx, componentName) ==
  setItem(s, keyForProject(ctx.id),
          JSONstringify(ensureProjectComponent(ctx.model, componentName).root))

\* the store a read leaves behind: the ensured copy is never persisted
readLeaves(s, ctx, componentName) == s

\* returns the value, whether it threw, and the store afterwards
getComponentContent(s, componentName) ==
  IF componentName = "" THEN [threw |-> TRUE, value |-> JUndef, store |-> s]
  ELSE Only({ IF ~ctx.ok THEN [threw |-> FALSE, value |-> JNull, store |-> s]
              ELSE IF ensureProjectComponentThrows(ctx.model)
              THEN [threw |-> TRUE, value |-> JUndef, store |-> s]
              ELSE Only({ [threw |-> FALSE,
                           value |-> deepClone(en.root.components[en.idx + 1].content),
                           store |-> readLeaves(s, ctx, componentName)]
                          : en \in {ensureProjectComponent(ctx.model, componentName)} })
              : ctx \in {readActiveProjectModelOrNull(s)} })

\* the project list with the entry of id stamped, when the list parses and
\* has the entry; otherwise the store as it is
touchProjectList(s, id, now) ==
  Only({ LET rawList == getItem(s1, STORAGE_KEY_PROJECT_LIST) IN
         IF rawList.t = "absent" \/ JSONparse(rawList).threw THEN s1
         ELSE LET list == JSONparse(rawList).v IN
              IF list.t # "object" THEN s1
              ELSE LET hits == {k \in 1..Len(list.projects) : list.projects[k].id = id} IN
                   IF hits = {} THEN s1
                   ELSE setItem(s1, STORAGE_KEY_PROJECT_LIST,
                                JSONstringify(
                                  [list EXCEPT
                                     !.projects[CHOOSE k \in hits : \A j \in hits : k <= j].updatedAt = now]))
         : s1 \in {s} })

\* no active project: nothing is written and nothing is reported
setContentNoProjectSilent(s) == [threw |-> FALSE, store |-> s]

\* no active project: the explicit error, before anything is written
setContentNoProject(s) == [threw |-> TRUE, store |-> s]

\* the other components of the document are dropped
setContentRootAlone(root, idx, value, now) ==
  [root EXCEPT !.components = <<[root.components[idx + 1] EXCEPT !.content = value]>>,
               !.updatedAt = now]

setContentRoot(root, idx, value, now) ==
  [root EXCEPT !.components[idx + 1].content = value, !.updatedAt = now]

\* returns whether it threw, and the store afterwards
setComponentContent(s, componentName, value, now) ==
  IF componentName = "" THEN [threw |-> TRUE, store |-> s]
  ELSE Only({ IF ~ctx.ok THEN setContentNoProject(s)
              ELSE IF ensureProjectComponentThrows(ctx.model) THEN [threw |-> TRUE, store |-> s]
              ELSE IF deepCloneThrows(value) THEN [threw |-> TRUE, store |-> s]
              ELSE Only({ [threw |-> FALSE,
                           store |-> touchProjectList(
                                       setItem(s, keyForProject(ctx.id),
                                               JSONstringify(setContentRoot(en.root, en.idx,
                                                                            deepClone(value), now))),
                                       ctx.id, now)]
                          : en \in {ensureProjectComponent(ctx.model, componentName)} })
              : ctx \in {readActiveProjectModelOrNull(s)} })

(* ------------------------------------------------------------------ *)
(* core/storage: project documents, the project list and the active     *)
(* pointer; the coordinator's handlers that call them                   *)
(* ------------------------------------------------------------------ *)
\* a timestamp field that is null
NullTime == 0 - 1

JStr(x) == [t |-> "string", s |-> x]
JBool(b) == [t |-> "boolean", b |-> b]

\* the pointer with its metadata, as setActiveProject writes it
FullPointer(id, title, createdAt, updatedAt) ==
  [t |-> "object", id |-> id, title |-> title,
   createdAt |-> createdAt, updatedAt |-> updatedAt]

removeItem(s, key) == [s EXCEPT ![key] = Absent]

\* pl.projects of readProjectList(): [] when the key is absent, the text
\* does not parse, or the value is not an object (the TypeError is caught)
readProjectList(s) ==
  Only({ IF raw.t = "absent" THEN <<>>
         ELSE IF JSONparse(raw).threw THEN <<>>
         ELSE IF JSONparse(raw).v.t # "object" THEN <<>>
         ELSE JSONparse(raw).v.projects
         : raw \in {getItem(s, STORAGE_KEY_PROJECT_LIST)} })

writeProjectList(s, projects) ==
  setItem(s, STORAGE_KEY_PROJECT_LIST, JSONstringify(ProjectList(projects)))

\* index (0-based) of the first entry with the id, -1 if none
findIndexById(projects, id) ==
  Only({ IF hits = {} THEN 0 - 1
         ELSE (CHOOSE k \in hits : \A j \in hits : k <= j) - 1
         : hits \in {{k \in 1..Len(projects) : projects[k].id = id}} })

\* only the first entry with the id is dropped
withoutProjectFirst(projects, id) ==
  IF findIndexById(projects, id) = 0 - 1 THEN projects
  ELSE SubSeq(projects, 1, findIndexById(projects, id))
         \o SubSeq(projects, findIndexById(projects, id) + 2, Len(projects))

\* pl.projects.filter((p) => p.id !== id)
withoutProject(projects, id) == SelectSeq(projects, LAMBDA p : p.id # id)

\* the list is written whether or not it had the entry
removeProjectFromList(s, id) ==
  writeProjectList(s, withoutProject(readProjectList(s), id))

touchProjectInList(s, id, updatedAt) ==
  Only({ Only({ IF idx = 0 - 1 THEN s
                ELSE writeProjectList(s, [projects EXCEPT ![idx + 1].updatedAt = updatedAt])
                : idx \in {findIndexById(projects, id)} })
         : projects \in {readProjectList(s)} })

\* the read writes { id: null } under a key that was missing
readActiveProjectCreates(s) ==
  IF getItem(s, STORAGE_KEY_ACTIVE_PROJECT).t = "absent"
  THEN setItem(s, STORAGE_KEY_ACTIVE_PROJECT, JSONstringify(ActivePointer(NULL)))
  ELSE s

\* the store readActiveProject() leaves behind: it never writes
readActiveProjectLeaves(s) == s

writeActiveProject(s, ap) ==
  setItem(s, STORAGE_KEY_ACTIVE_PROJECT, JSONstringify(ap))

\* ap?.id === id, for an id that is a non-empty string
pointsAt(ap, id) == ap.t = "object" /\ ap.id = id

\* { ...ap, title: nextTitle }
withTitle(ap, nextTitle) ==
  [f \in DOMAIN ap \cup {"title"} |-> IF f = "title" THEN nextTitle ELSE ap[f]]

\* returns the value and the store afterwards
getActiveProject(s) ==
  [threw |-> FALSE, value |-> deepClone(readActiveProject(s)),
   store |-> readActiveProjectLeaves(s)]

getActiveProjectIdCall(s) ==
  [threw |-> FALSE,
   value |-> IF getActiveProjectId(s) = NULL THEN JNull ELSE JStr(getActiveProjectId(s)),
   store |-> readActiveProjectLeaves(s)]

isProjectActive(s, id) ==
  IF id = "" THEN [threw |-> FALSE, value |-> JBool(FALSE), store |-> s]
  ELSE [threw |-> FALSE, value |-> JBool(pointsAt(readActiveProject(s), id)),
        store |-> readActiveProjectLeaves(s)]

setActiveProject(s, id, title, createdAt, updatedAt) ==
  IF id = "" THEN [threw |-> TRUE, store |-> s]
  ELSE [threw |-> FALSE,
        store |-> writeActiveProject(s, FullPointer(id, title, createdAt, updatedAt))]

clearActiveProject(s) ==
  writeActiveProject(s, FullPointer(NULL, NULL, NullTime, NullTime))

\* JSON.parse(raw) outside any try: a text that is not JSON throws
getProject(s, id) ==
  IF id = "" THEN [threw |-> TRUE, value |-> JUndef]
  ELSE Only({ IF raw.t = "absent" THEN [threw |-> FALSE, value |-> JNull]
              ELSE IF JSONparse(raw).threw THEN [threw |-> TRUE, value |-> JUndef]
              ELSE [threw |-> FALSE, value |-> JSONparse(raw).v]
              : raw \in {getItem(s, keyForProject(id))} })

\* returns whether it threw, and the store afterwards
deleteProject(s, id) ==
  IF id = "" THEN [threw |-> TRUE, store |-> s]
  ELSE Only({ [threw |-> FALSE,
               store |-> IF pointsAt(readActiveProject(s2), id)
                         THEN writeActiveProject(readActiveProjectLeaves(s2), ActivePointer(NULL))
                         ELSE readActiveProjectLeaves(s2)]
              : s2 \in {removeProjectFromList(removeItem(s, keyForProject(id)), id)} })

renameProjectInList(s, id, nextTitle) ==
  IF id = "" \/ nextTitle = "" THEN [threw |-> TRUE, store |-> s]
  ELSE Only({ Only({ IF idx = 0 - 1 THEN [threw |-> FALSE, store |-> s]
                     ELSE Only({ [threw |-> FALSE,
                                  store |-> IF pointsAt(readActiveProject(s2), id)
                                            THEN writeActiveProject(
                                                   readActiveProjectLeaves(s2),
                                                   withTitle(readActiveProject(s2), nextTitle))
                                            ELSE readActiveProjectLeaves(s2)]
                                 : s2 \in {writeProjectList(
                                              s, [projects EXCEPT ![idx + 1].title = nextTitle])} })
                     : idx \in {findIndexById(projects, id)} })
              : projects \in {readProjectList(s)} })

\* returns whether it threw, and the store afterwards
setProject(s, id, model) ==
  IF id = "" \/ model.t \notin {"object", "array"} THEN [threw |-> TRUE, store |-> s]
  ELSE [threw |-> FALSE, store |-> setItem(s, keyForProject(id), JSONstringify(deepClone(model)))]

\* variant: an id that is not listed yet is not appended
upsertedKeepsLength(projects, idx, entry) ==
  IF idx = 0 - 1 THEN projects
  ELSE [projects EXCEPT ![idx + 1] =
          [f \in DOMAIN @ \cup DOMAIN entry |-> IF f \in {"id"} THEN @[f] ELSE entry[f]]]

\* pl.projects after the push, or after the entry at idx was replaced by
\* { ...pl.projects[idx], title, createdAt, updatedAt }
upserted(projects, idx, entry) ==
  IF idx = 0 - 1 THEN Append(projects, entry)
  ELSE [projects EXCEPT ![idx + 1] =
          [f \in DOMAIN @ \cup DOMAIN entry |-> IF f \in {"id"} THEN @[f] ELSE entry[f]]]

\* variant: the entry is pushed whether or not its id is listed
addProjectToListAlwaysPushes(s, entry) ==
  IF entry.id = "" \/ entry.title = "" THEN [threw |-> TRUE, store |-> s]
  ELSE [threw |-> FALSE, store |-> writeProjectList(s, Append(readProjectList(s), entry))]

addProjectToList(s, entry) ==
  IF entry.id = "" \/ entry.title = "" THEN [threw |-> TRUE, store |-> s]
  ELSE Only({ [threw |-> FALSE,
               store |-> writeProjectList(s, upserted(projects, findIndexById(projects, entry.id),
                                                      entry))]
              : projects \in {readProjectList(s)} })

\* String.prototype.trim on detail.id, "" when detail.id is not a string
RECURSIVE Join(_)
Join(chars) == IF chars = <<>> THEN "" ELSE Head(chars) \o Join(Tail(chars))

\* a detail.id that is not a string
NotAString == <<"<not a string>">>

detailId(detail) == IF detail = NotAString THEN "" ELSE Join(Trim(detail))

\* const { title = null, createdAt = null, updatedAt = null } = model
modelUpdatedAt(model) == IF model.t = "object" THEN model.updatedAt ELSE NullTime

\* the renderers the coordinator knows (RENDERERS)
RendererNames ==
  {"description", "timeline", "schedule", "checklist", "supplieslist", "stepslist",
   "teamlist", "searchnext"}

\* the components of a project document that are mounted: state "mounted"
\* and a renderer of that name; their order by position decides only which
\* of the two containers receives a host
mountableComponents(projectModel) ==
  IF projectModel.t # "object" THEN <<>>
  ELSE IF ~projectModel.hasComponents THEN <<>>
  ELSE SelectSeq(projectModel.components,
                 LAMBDA c : /\ "state" \in DOMAIN c
                            /\ c.state = "mounted"
                            /\ c.name \in RendererNames)

\* a call of mountActiveProjectComponents(projectModel, activeProjectId)
\* that has reached its await; no call at all
Mount(projectModel, activeProjectId) ==
  [id |-> activeProjectId, components |-> mountableComponents(projectModel)]
NoMount == [id |-> NULL, components |-> <<>>]

\* `host-${position}-${name}`
hostIdOf(comp) == <<"host", comp.position, comp.name>>

\* mountActiveProjectComponents after its await: the hosts tagged with
\* another project are removed, and every mountable component gets its host,
\* rendered and tagged unless it already is
mountResumes(hs, m) ==
  {h \in hs : h.projectId \in {NULL, m.id}
               /\ \A k \in 1..Len(m.components) : h.hostId # hostIdOf(m.components[k])}
    \cup {[hostId |-> hostIdOf(m.components[k]), mounted |-> m.components[k].name,
            projectId |-> m.id] : k \in 1..Len(m.components)}

\* the app:select-project listener: whether it threw, the store afterwards
\* and the mount it started
selectProject(s, detail, now) ==
  Only({ IF id = "" THEN [threw |-> FALSE, store |-> s, mount |-> NoMount]
         ELSE Only({ IF g.threw THEN [threw |-> TRUE, store |-> s, mount |-> NoMount]
                     ELSE IF g.value.t = "null"
                     THEN [threw |-> FALSE, store |-> s, mount |-> NoMount]
                     ELSE Only({ [threw |-> FALSE,
                                  store |-> touchProjectInList(
                                              setActiveProject(s, id, NULL, NullTime, at).store,
                                              id, IF at = NullTime THEN now ELSE at),
                                  mount |-> Mount(g.value, id)]
                                 : at \in {modelUpdatedAt(g.value)} })
                     : g \in {getProject(s, id)} })
         : id \in {detailId(detail)} })

\* core/json/model-example.json: the example project, a document with
\* components
modelExample ==
  [t |-> "object", hasComponents |-> TRUE,
   components |-> <<[name |-> "checklist", title |-> "Checklist",
                     content |-> JArr(<<>>), position |-> 1]>>]

\* `Project ${now}`, a string that is not empty
FallbackTitle == "Project <date>"

\* the clone of the example with id, createdAt, updatedAt and title assigned
fallbackProject(id, now) ==
  [f \in DOMAIN modelExample \cup {"id", "createdAt", "updatedAt", "title"} |->
     IF f = "id" THEN id
     ELSE IF f \in {"createdAt", "updatedAt"} THEN now
     ELSE IF f = "title" THEN FallbackTitle
     ELSE deepClone(modelExample)[f]]

\* the store after withoutAi(): the four storage calls stand in one try
\* block, and the first that throws ends it
withoutAi(s, id, now) ==
  Only({ IF p.threw THEN s
         ELSE Only({ IF a.threw THEN p.store
                     ELSE Only({ IF ap.threw THEN a.store
                                 ELSE touchProjectInList(ap.store, id, now)
                                 : ap \in {setActiveProject(a.store, id, FallbackTitle, now, now)} })
                     : a \in {addProjectToList(p.store,
                                                ProjectEntry(id, FallbackTitle, now, now))} })
         : p \in {setProject(s, id, fallbackProject(id, now))} })

\* what LanguageModel.availability() may answer; "no-api" when there is no
\* LanguageModel in the page, "throws" when the call rejects
Availabilities == {"no-api", "unavailable", "downloadable", "available", "throws"}

getPromptApiAvailability(answer) ==
  IF answer = "no-api" THEN [threw |-> FALSE, value |-> "unavailable"]
  ELSE IF answer = "throws" THEN [threw |-> TRUE, value |-> ""]
  ELSE [threw |-> FALSE, value |-> answer]

\* startApp() up to the promise it returns being settled: which way it
\* went, whether it rejected, the store afterwards and the mount it started
startApp(s, answer, id, now) ==
  IF getActiveProjectId(s) \notin {NULL, ""}
  THEN Only({ [threw |-> FALSE, value |-> JStr("active"), store |-> s,
               mount |-> IF g.threw \/ g.value.t = "null" THEN NoMount
                         ELSE Mount(g.value, getActiveProjectId(s))]
              : g \in {getProject(s, getActiveProjectId(s))} })
  ELSE Only({ IF av.threw
              THEN [threw |-> TRUE, value |-> JUndef, store |-> s, mount |-> NoMount]
              ELSE IF av.value = "unavailable"
                   THEN [threw |-> FALSE, value |-> JStr("fallback"),
                         store |-> withoutAi(s, id, now),
                         mount |-> Mount(fallbackProject(id, now), id)]
                   ELSE [threw |-> FALSE, value |-> JStr("generator"), store |-> s,
                         mount |-> NoMount]
              : av \in {getPromptApiAvailability(answer)} })

(* ------------------------------------------------------------------ *)
(* The list Models on top of core/storage: checklist (guestlist,        *)
(* supplies and stepslist share its code), team and timeline            *)
(* ------------------------------------------------------------------ *)
\* {id, text, checked} of a checklist; {id, role, name} of the team and
\* {id, heading, description} of the timeline, fields in that order
CheckItem(id, text, checked) == [id |-> id, text |-> text, checked |-> checked]
PairItem(id, first, second) == [id |-> id, first |-> first, second |-> second]

PairModels == {"team", "timeline"}

\* a patch field that is not given
UNDEFINED == <<"undefined">>

ActivityHeading(n) == <<"A", "c", "t", "i", "v", "i", "t", "y", " ", n>>
ActivityDescription(n) ==
  ActivityHeading(n) \o <<" ", "d", "e", "s", "c", "r", "i", "p", "t", "i", "o", "n",
                          " ", "t", "e", "x", "t", ".">>

ListIdInputs == {uid(n) : n \in 1..MaxIds}
\* patches: one field emptied, both emptied, one field set
PatchInputs ==
  {<<UNDEFINED, <<" ">>>>, <<<<" ">>, <<" ">>>>, <<<<" ", "x">>, UNDEFINED>>}

\* a call in progress: the store and the uid counter as they are so far,
\* what was written and dispatched, whether an exception is propagating,
\* and the time of the call
\* failAt = k > 0: localStorage is so full that the k-th write of the call
\* is refused
Effect(s, n, now) ==
  [store |-> s, nextId |-> n, log |-> <<>>, threw |-> FALSE, now |-> now,
   failAt |-> 0]

ListCall(op, m, id, first, second, toIndex, value) ==
  [op |-> op, m |-> m, id |-> id, first |-> first, second |-> second,
   toIndex |-> toIndex, value |-> value]

RECURSIVE modelGetAll(_, _)
RECURSIVE modelWrite(_, _, _)

\* only the timeline, and only without items, falls back to its defaults
getAllDefaults(m, arr) == m = "timeline" /\ arr = <<>>

\* the timeline's two default activities, with the next two uids
defaultItems(n) ==
  <<PairItem(uid(n), ActivityHeading("1"), ActivityDescription("1")),
    PairItem(uid(n + 1), ActivityHeading("2"), ActivityDescription("2"))>>

\* Array.isArray(content) ? content : [] (the timeline's content?.items is
\* never an array here)
arrayOf(value) == IF value.t = "array" THEN value.items ELSE <<>>

\* getAll(): the items returned and the call afterwards
modelGetAll(m, e) ==
  Only({ IF r.threw THEN [items |-> <<>>, e |-> [e EXCEPT !.threw = TRUE]]
         ELSE IF ~getAllDefaults(m, arrayOf(r.value))
         THEN [items |-> arrayOf(r.value), e |-> [e EXCEPT !.store = r.store]]
         ELSE [items |-> defaultItems(e.nextId),
               e |-> modelWrite(m, defaultItems(e.nextId),
                                [e EXCEPT !.store = r.store, !.nextId = @ + 2])]
         : r \in {getComponentContent(e.store, m)} })

\* what setComponentContent leaves: the store written, one "write"
writeLog(e, s) == [e EXCEPT !.store = s, !.log = Append(@, "write")]

\* localStorage.setItem of the project document throws (the quota is
\* exceeded) on this write of the call
setItemThrows(e) ==
  e.failAt = Cardinality({k \in 1..Len(e.log) : e.log[k] = "write"}) + 1

\* _write(nextItems): setComponentContent, then the "change" event, whose
\* detail is a fresh getAll()
modelWrite(m, nextItems, e) ==
  Only({ IF r.threw \/ setItemThrows(e) THEN [e EXCEPT !.threw = TRUE]
         ELSE Only({ IF detail.e.threw THEN detail.e
                     ELSE [detail.e EXCEPT !.log = Append(@, "change")]
                     : detail \in {modelGetAll(m, writeLog(e, r.store))} })
         : r \in {setComponentContent(e.store, m, JArr(nextItems), e.now)} })

\* checklist add(text)
listAddReturns(text) == Trim(text) = <<>>

listAdd(text, e) ==
  IF listAddReturns(text) THEN e
  ELSE Only({ IF g.e.threw THEN g.e
              ELSE modelWrite("checklist",
                              Append(g.items, CheckItem(uid(g.e.nextId), Trim(text), FALSE)),
                              [g.e EXCEPT !.nextId = @ + 1])
              : g \in {modelGetAll("checklist", e)} })

\* checklist toggle(id)
listToggle(id, e) ==
  Only({ IF g.e.threw THEN g.e
         ELSE modelWrite("checklist",
                         [k \in 1..Len(g.items) |->
                            IF g.items[k].id = id
                            THEN [g.items[k] EXCEPT !.checked = ~@]
                            ELSE g.items[k]],
                         g.e)
         : g \in {modelGetAll("checklist", e)} })

\* the item is taken out by splice(findIndex, 1): an absent id takes the
\* last item out
listRemoveBySplice(m, id, e) ==
  Only({ IF g.e.threw THEN g.e
         ELSE modelWrite(m,
                         IF findIndex(g.items, id) = 0 - 1
                         THEN SubSeq(g.items, 1, Len(g.items) - 1)
                         ELSE spliceOut(g.items, findIndex(g.items, id)),
                         g.e)
         : g \in {modelGetAll(m, e)} })

\* remove(id), the same in every list Model
listRemove(m, id, e) ==
  Only({ IF g.e.threw THEN g.e
         ELSE modelWrite(m, WithoutId(g.items, id), g.e)
         : g \in {modelGetAll(m, e)} })

\* the empty text is stored like any other
updateTextRemovesNever(text) == FALSE

updateTextRemoves(text) == Trim(text) = <<>>

\* checklist updateText(id, text)
listUpdateText(id, text, e) ==
  IF updateTextRemoves(text) THEN listRemove("checklist", id, e)
  ELSE Only({ IF g.e.threw THEN g.e
              ELSE modelWrite("checklist",
                              [k \in 1..Len(g.items) |->
                                 IF g.items[k].id = id
                                 THEN [g.items[k] EXCEPT !.text = Trim(text)]
                                 ELSE g.items[k]],
                              g.e)
              : g \in {modelGetAll("checklist", e)} })

\* team and timeline add: nothing is required
pairAddReturnsNever(first, second) == FALSE

\* team add(role, name), timeline add(heading, description): both texts
\* are required
pairAddReturns(first, second) == Trim(first) = <<>> \/ Trim(second) = <<>>

pairAdd(m, first, second, e) ==
  IF pairAddReturns(first, second) THEN e
  ELSE Only({ IF g.e.threw THEN g.e
              ELSE modelWrite(m,
                              Append(g.items,
                                     PairItem(uid(g.e.nextId), Trim(first), Trim(second))),
                              [g.e EXCEPT !.nextId = @ + 1])
              : g \in {modelGetAll(m, e)} })

\* the item after the patch: a field that is given replaces the stored one
patched(cur, first, second) ==
  PairItem(cur.id,
           IF first # UNDEFINED THEN Trim(first) ELSE cur.first,
           IF second # UNDEFINED THEN Trim(second) ELSE cur.second)

\* team updateFields(id, fields), timeline update(id, patch)
pairUpdate(m, id, first, second, e) ==
  Only({ IF g.e.threw THEN g.e
         ELSE IF findIndex(g.items, id) = 0 - 1 THEN g.e
         ELSE Only({ IF next.first = <<>> /\ next.second = <<>>
                     THEN modelWrite(m, WithoutId(g.items, id), g.e)
                     ELSE modelWrite(m,
                                     [g.items EXCEPT ![findIndex(g.items, id) + 1] = next],
                                     g.e)
                     : next \in {patched(g.items[findIndex(g.items, id) + 1], first, second)} })
         : g \in {modelGetAll(m, e)} })

\* the moves that change nothing: at most one item, id absent, or the
\* clamped destination is the item's own place or the one after it
moveReturns(items, id, toIndex) ==
  LET len == Len(items)
      from == findIndex(items, id)
      dest == Max2(0, Min2(len, toIndex))
  IN \/ len <= 1
     \/ from = 0 - 1
     \/ dest = from
     \/ dest = from + 1

\* the destination is used as given
moveDestUnadjusted(from, dest) == dest

\* the destination after the item has been taken out
moveDest(from, dest) == IF dest > from THEN dest - 1 ELSE dest

moveResult(items, id, toIndex) ==
  LET from == findIndex(items, id)
      dest == Max2(0, Min2(Len(items), toIndex))
  IN spliceIn(spliceOut(items, from), moveDest(from, dest), items[from + 1])

\* moveToIndex(id, toIndex), the same in every list Model
listMoveToIndex(m, id, toIndex, e) ==
  Only({ IF g.e.threw THEN g.e
         ELSE IF moveReturns(g.items, id, toIndex) THEN g.e
         ELSE modelWrite(m, moveResult(g.items, id, toIndex), g.e)
         : g \in {modelGetAll(m, e)} })

(* ------------------------------------------------------------------ *)
(* Calls of the list Models and of core/storage                         *)
(* ------------------------------------------------------------------ *)
\* new Date().toISOString() during this page load; what was stored before
\* carries the stamp 0
SessionTime == 1

\* the call that starts now
Start == Effect(store, nextId, SessionTime)

\* no host in the page, no mount waiting
MountIdle ==
  /\ hosts = {}
  /\ pendingMounts = <<>>

\* the Controller as constructed: this.createInFlight = false
ControllerIdle == createInFlight = FALSE

\* the Controller's "change" listener ran during the call that ends as e:
\* the Model dispatched its event, whose detail.name is the Model's own name
changeHeard(e) == \E k \in 1..Len(e.log) : e.log[k] = "change"

\* what every call of a list Model, of core/storage or of the coordinator
\* does to the state: e is the call when it ends, value what it returns,
\* pending the mounts waiting afterwards, inFlight the flag as the caller
\* left it; the "change" listener sets createInFlight = false
StepOf(call, e, value, pending, inFlight) ==
  /\ calls < MaxCalls
  /\ calls' = calls + 1
  /\ e.nextId <= MaxIds + 1
  /\ listCall' = call
  /\ storeBefore' = store
  /\ store' = e.store
  /\ nextId' = e.nextId
  /\ log' = e.log
  /\ result' = [threw |-> e.threw, value |-> IF e.threw THEN JUndef ELSE value]
  /\ pendingMounts' = pending
  /\ hosts' = hosts
  /\ createInFlight' = IF changeHeard(e) THEN FALSE ELSE inFlight
  /\ UNCHANGED <<scheduleVars, dragVars>>

\* a call made by another caller than view.onCreate
StepThenMount(call, e, value, pending) == StepOf(call, e, value, pending, createInFlight)

\* a call that starts no mount
Step(call, e, value) == StepThenMount(call, e, value, pendingMounts)

\* A behaviour follows one Model instance. The Models share nothing but
\* core/storage, and each call reads and writes the content of its own
\* component only.
FollowsModel(m) ==
  /\ calls < MaxCalls
  /\ lastCall.op = "init"
  /\ listCall.op = "init" \/ listCall.m = m

GetAll(m) ==
  /\ FollowsModel(m)
  /\ \E g \in {modelGetAll(m, Start)} :
       Step(ListCall("getAll", m, "", <<>>, <<>>, 0, JUndef), g.e, JArr(g.items))

ListAdd(text) ==
  /\ FollowsModel("checklist")
  /\ \E e \in {listAdd(text, Start)} :
       Step(ListCall("add", "checklist", "", text, <<>>, 0, JUndef), e, JUndef)

ListToggle(id) ==
  /\ FollowsModel("checklist")
  /\ \E e \in {listToggle(id, Start)} :
       Step(ListCall("toggle", "checklist", id, <<>>, <<>>, 0, JUndef), e, JUndef)

ListUpdateText(id, text) ==
  /\ FollowsModel("checklist")
  /\ \E e \in {listUpdateText(id, text, Start)} :
       Step(ListCall("updateText", "checklist", id, text, <<>>, 0, JUndef), e, JUndef)

ListRemove(m, id) ==
  /\ FollowsModel(m)
  /\ \E e \in {listRemove(m, id, Start)} :
       Step(ListCall("remove", m, id, <<>>, <<>>, 0, JUndef), e, JUndef)

ListMoveToIndex(m, id, toIndex) ==
  /\ FollowsModel(m)
  /\ \E e \in {listMoveToIndex(m, id, toIndex, Start)} :
       Step(ListCall("moveToIndex", m, id, <<>>, <<>>, toIndex, JUndef), e, JUndef)

PairAdd(m, first, second) ==
  /\ FollowsModel(m)
  /\ \E e \in {pairAdd(m, first, second, Start)} :
       Step(ListCall("add", m, "", first, second, 0, JUndef), e, JUndef)

\* view.onCreate of the checklist Controller, called by the View's create()
\* with the trimmed text typed, which is not empty, while localStorage
\* refuses the k-th write (k = 0: none)
Create(typed, k) ==
  /\ FollowsModel("checklist")
  /\ Trim(typed) # <<>>
  /\ IF createInFlight
     THEN Step(ListCall("onCreate", "checklist", "", Trim(typed), <<>>, 0, JStr("returned")),
               Start, JUndef)
     ELSE \E e \in {listAdd(Trim(typed), [Start EXCEPT !.failAt = k])} :
            StepOf(ListCall("onCreate", "checklist", "", Trim(typed), <<>>, 0, JStr("add")),
                   e, JUndef, pendingMounts, TRUE)

\* onCreate of the team and timeline Controllers, both fields typed
PairCreate(m, first, second, k) ==
  /\ FollowsModel(m)
  /\ Trim(first) # <<>> /\ Trim(second) # <<>>
  /\ IF createInFlight
     THEN Step(ListCall("onCreate", m, "", Trim(first), Trim(second), 0, JStr("returned")),
               Start, JUndef)
     ELSE \E e \in {pairAdd(m, Trim(first), Trim(second), [Start EXCEPT !.failAt = k])} :
            StepOf(ListCall("onCreate", m, "", Trim(first), Trim(second), 0, JStr("add")),
                   e, JUndef, pendingMounts, TRUE)

PairUpdate(m, id, first, second) ==
  /\ FollowsModel(m)
  /\ \E e \in {pairUpdate(m, id, first, second, Start)} :
       Step(ListCall("update", m, id, first, second, 0, JUndef), e, JUndef)

GetComponentContent(componentName) ==
  /\ calls < MaxCalls
  /\ \E r \in {getComponentContent(store, componentName)} :
    Step(ListCall("getComponentContent", componentName, "", <<>>, <<>>, 0, JUndef),
         [Start EXCEPT !.store = r.store, !.threw = r.threw], r.value)

SetComponentContent(componentName, value) ==
  /\ calls < MaxCalls
  /\ \E r \in {setComponentContent(store, componentName, value, SessionTime)} :
    Step(ListCall("setComponentContent", componentName, "", <<>>, <<>>, 0, value),
         [Start EXCEPT !.store = r.store, !.threw = r.threw,
                       !.log = IF r.threw THEN <<>> ELSE <<"write">>],
         JUndef)

\* the mutating call c of a list Model, begun as e
callEffect(c, e) ==
  CASE c.op = "add" /\ c.m = "checklist" -> listAdd(c.first, e)
    [] c.op = "add" /\ c.m # "checklist" -> pairAdd(c.m, c.first, c.second, e)
    [] c.op = "toggle" -> listToggle(c.id, e)
    [] c.op = "updateText" -> listUpdateText(c.id, c.first, e)
    [] c.op = "update" -> pairUpdate(c.m, c.id, c.first, c.second, e)
    [] c.op = "remove" -> listRemove(c.m, c.id, e)
    [] c.op = "moveToIndex" -> listMoveToIndex(c.m, c.id, c.toIndex, e)

\* a mutating call made while localStorage refuses the k-th write
WithStorageFull(c, k) ==
  /\ FollowsModel(c.m)
  /\ \E e \in {callEffect(c, [Start EXCEPT !.failAt = k])} : Step(c, e, JUndef)

\* a call of core/storage about projects: id is the project id given,
\* value the other argument
ProjectCall(op, id, value) == ListCall(op, "", id, <<>>, <<>>, 0, value)

\* the mounts waiting once a handler has started mount m
withMount(pending, m) == IF m = NoMount THEN pending ELSE Append(pending, m)

\* r is what the call returns: whether it threw and the store afterwards
ProjectStep(call, r, value) ==
  Step(call, [Start EXCEPT !.store = r.store, !.threw = r.threw], value)

GetActiveProject ==
  /\ calls < MaxCalls
  /\ \E r \in {getActiveProject(store)} :
       ProjectStep(ProjectCall("getActiveProject", "", JUndef), r, r.value)

GetActiveProjectId ==
  /\ calls < MaxCalls
  /\ \E r \in {getActiveProjectIdCall(store)} :
       ProjectStep(ProjectCall("getActiveProjectId", "", JUndef), r, r.value)

IsProjectActive(id) ==
  /\ calls < MaxCalls
  /\ \E r \in {isProjectActive(store, id)} :
       ProjectStep(ProjectCall("isProjectActive", id, JUndef), r, r.value)

GetProject(id) ==
  /\ calls < MaxCalls
  /\ \E g \in {getProject(store, id)} :
       ProjectStep(ProjectCall("getProject", id, JUndef),
                   [threw |-> g.threw, store |-> store], g.value)

DeleteProject(id) ==
  /\ calls < MaxCalls
  /\ \E r \in {deleteProject(store, id)} :
       ProjectStep(ProjectCall("deleteProject", id, JUndef), r, JUndef)

RenameProjectInList(id, nextTitle) ==
  /\ calls < MaxCalls
  /\ \E r \in {renameProjectInList(store, id, nextTitle)} :
       ProjectStep(ProjectCall("renameProjectInList", id, JStr(nextTitle)), r, JUndef)

\* the app:new-plan-requested listener: the pointer is cleared when the
\* generator's container is in the page
NewPlanRequested(found) ==
  /\ calls < MaxCalls
  /\ ProjectStep(ProjectCall("newPlanRequested", "", JBool(found)),
                 [threw |-> FALSE,
                  store |-> IF found THEN clearActiveProject(store) ELSE store],
                 JUndef)

\* the app:select-project listener
SelectProject(detail) ==
  /\ calls < MaxCalls
  /\ \E r \in {selectProject(store, detail, SessionTime)} :
       StepThenMount(ProjectCall("selectProject", detailId(detail), JUndef),
                     [Start EXCEPT !.store = r.store, !.threw = r.threw], JUndef,
                     withMount(pendingMounts, r.mount))

\* the k-th waiting mount gets the answer of the Prompt API and resumes
MountResumes(k) ==
  /\ k <= Len(pendingMounts)
  /\ hosts' = mountResumes(hosts, pendingMounts[k])
  /\ pendingMounts' = SubSeq(pendingMounts, 1, k - 1)
                         \o SubSeq(pendingMounts, k + 1, Len(pendingMounts))
  /\ UNCHANGED <<scheduleVars, storageVars, nextId, log, calls, dragVars, controllerVars>>

\* View.render(items) of the checklist and the guest list: the pending
\* and the completed pane, each a drag list of its own
Panes == {"pending", "completed"}

renderPane(items, pane) ==
  SelectSeq(items, LAMBDA i : i.checked = (pane = "completed"))

\* a drop in a pane: the pane's onReorder(draggedId, toIndex) goes to the
\* view's onReorder and from there to model.moveToIndex(draggedId, toIndex);
\* draggedId is an item of the pane, toIndex an index of the pane
PaneDrop(pane, draggedId, toIndex) ==
  /\ FollowsModel("checklist")
  /\ \E k \in 1..Len(renderPane(modelGetAll("checklist", Start).items, pane)) :
       renderPane(modelGetAll("checklist", Start).items, pane)[k].id = draggedId
  /\ toIndex \in 0..Len(renderPane(modelGetAll("checklist", Start).items, pane))
  /\ \E e \in {listMoveToIndex("checklist", draggedId, toIndex, Start)} :
       Step(ListCall("paneDrop", "checklist", draggedId, <<>>, <<>>, toIndex, JStr(pane)),
            e, JUndef)

\* the index operations called directly
AddProjectToList(id, title) ==
  /\ calls < MaxCalls
  /\ \E r \in {addProjectToList(store, ProjectEntry(id, title, SessionTime, SessionTime))} :
       ProjectStep(ProjectCall("addProjectToList", id, JStr(title)), r, JUndef)

RemoveProjectFromList(id) ==
  /\ calls < MaxCalls
  /\ ProjectStep(ProjectCall("removeProjectFromList", id, JUndef),
                 [threw |-> id = "",
                  store |-> IF id = "" THEN store ELSE removeProjectFromList(store, id)],
                 JUndef)

TouchProjectInList(id) ==
  /\ calls < MaxCalls
  /\ ProjectStep(ProjectCall("touchProjectInList", id, JUndef),
                 [threw |-> id = "",
                  store |-> IF id = "" THEN store
                            ELSE touchProjectInList(store, id, SessionTime)],
                 JUndef)

\* startApp(), with the answer of the Prompt API
StartApp(answer) ==
  /\ calls < MaxCalls
  /\ \E r \in {startApp(store, answer, projectUid, SessionTime)} :
       StepThenMount(ProjectCall("startApp", projectUid, JStr(answer)),
                     [Start EXCEPT !.store = r.store, !.threw = r.threw], r.value,
                     withMount(pendingMounts, r.mount))

(* ------------------------------------------------------------------ *)
(* The drag-and-drop reorder helper (attachListReorder): two lists       *)
(* attached on one page, as the checklist attaches its pending and its   *)
(* completed list                                                        *)
(* ------------------------------------------------------------------ *)
MaxEvents == 5

DragLists == {"A", "B"}

\* a row of a list as it is laid out: id is dataset.id ("" when it has
\* none), ignored whether it matches ignoreSelector
Row(id, ignored, top, height) ==
  [id |-> id, ignored |-> ignored, top |-> top, height |-> height]

\* list A: two items with the new-entry row between them; list B, further
\* down the page: one item, lower than two edge zones
RowsOf(ul) ==
  IF ul = "A"
  THEN <<Row("x", FALSE, 0, 40), Row("", TRUE, 40, 20), Row("y", FALSE, 60, 40)>>
  ELSE <<Row("u", FALSE, 200, 40)>>

ListLeft == 0
ListRight == 100
containerEdgePx == 24
allowGlobalEdges == TRUE

\* ul.getBoundingClientRect()
getRect(ul) ==
  [left |-> ListLeft, right |-> ListRight, top |-> RowsOf(ul)[1].top,
   bottom |-> RowsOf(ul)[Len(RowsOf(ul))].top + RowsOf(ul)[Len(RowsOf(ul))].height]

getRealItems(ul) == SelectSeq(RowsOf(ul), LAMBDA li : ~li.ignored /\ li.id # "")

ItemIds(ul) == {getRealItems(ul)[k].id : k \in 1..Len(getRealItems(ul))}

\* the index a function returns when it returns null
NoIndex == 0 - 1

containerEdgeIndex(ul, clientY) ==
  IF getRealItems(ul) = <<>> THEN NoIndex
  ELSE IF clientY <= getRect(ul).top + containerEdgePx THEN 0
  ELSE IF clientY >= getRect(ul).bottom - containerEdgePx THEN Len(getRealItems(ul))
  ELSE NoIndex

\* the first item whose top edge is below the pointer
insertionIndexFromYByTop(ul, clientY) ==
  Only({ IF hits = {} THEN Len(getRealItems(ul))
         ELSE (CHOOSE k \in hits : \A j \in hits : k <= j) - 1
         : hits \in {{k \in 1..Len(getRealItems(ul)) :
                        clientY < getRealItems(ul)[k].top}} })

\* the first item with clientY < r.top + r.height / 2
insertionIndexFromY(ul, clientY) ==
  Only({ IF hits = {} THEN Len(getRealItems(ul))
         ELSE (CHOOSE k \in hits : \A j \in hits : k <= j) - 1
         : hits \in {{k \in 1..Len(getRealItems(ul)) :
                        2 * clientY < 2 * getRealItems(ul)[k].top
                                        + getRealItems(ul)[k].height}} })

\* edgeIdx !== null ? edgeIdx : insertionIndexFromY(clientY)
indexFromPointer(ul, clientY) ==
  IF containerEdgeIndex(ul, clientY) # NoIndex THEN containerEdgeIndex(ul, clientY)
  ELSE insertionIndexFromY(ul, clientY)

insideUl(rect, p) ==
  /\ p.x >= rect.left
  /\ p.x <= rect.right
  /\ p.y >= rect.top
  /\ p.y <= rect.bottom

\* the state the handlers work on
DragState ==
  [activeUL |-> activeUL, activeAPI |-> activeAPI, draggingId |-> draggingId,
   guideAttr |-> guideAttr, guideClass |-> guideClass,
   draggingClass |-> draggingClass, reorders |-> reorders]

clearGuides(d, ul) ==
  [d EXCEPT !.guideClass[ul] = @ \ {<<id, d.guideAttr[ul][id]>> : id \in ItemIds(ul)},
            !.guideAttr[ul] = [id \in ItemIds(ul) |-> "none"]]

clearAll(d, ul) == [clearGuides(d, ul) EXCEPT !.draggingClass[ul] = {}]

\* setAttribute('data-dnd-guide', kind) and addClasses on one item
paintGuide(d, ul, id, kind) ==
  [d EXCEPT !.guideAttr[ul][id] = kind,
            !.guideClass[ul] = @ \cup {<<id, kind>>}]

paintGuideByIndex(d, ul, index) ==
  IF getRealItems(ul) = <<>> THEN d
  ELSE IF index <= 0 THEN paintGuide(d, ul, getRealItems(ul)[1].id, "before")
  ELSE IF index >= Len(getRealItems(ul))
  THEN paintGuide(d, ul, getRealItems(ul)[Len(getRealItems(ul))].id, "after")
  ELSE paintGuide(d, ul, getRealItems(ul)[index + 1].id, "before")

\* activeAPI.setInactive()
setInactive(d) == [d EXCEPT !.activeUL = NULL, !.activeAPI = NULL]

\* onReorder(id, toIndex) of list ul is invoked
withReorder(d, ul, id, toIndex) ==
  [d EXCEPT !.reorders = Append(@, [ul |-> ul, id |-> id, toIndex |-> toIndex])]

onDragStart(d, ul, li) ==
  IF li.id = "" \/ li.ignored THEN d
  ELSE [d EXCEPT !.activeUL = ul, !.activeAPI = ul,
                 !.draggingId[ul] = li.id,
                 !.draggingClass[ul] = @ \cup {li.id}]

\* the guide is painted without clearing the one painted before
onDragOverKeepsGuides(d, ul, clientY) ==
  IF d.activeUL # ul \/ d.draggingId[ul] = NULL THEN d
  ELSE paintGuideByIndex(d, ul, indexFromPointer(ul, clientY))

onDragOver(d, ul, clientY) ==
  IF d.activeUL # ul \/ d.draggingId[ul] = NULL THEN d
  ELSE paintGuideByIndex(clearGuides(d, ul), ul, indexFromPointer(ul, clientY))

\* relatedInside: ul.contains(e.relatedTarget)
onDragLeave(d, ul, relatedInside) ==
  IF d.activeUL # ul THEN d
  ELSE IF relatedInside THEN d
  ELSE clearGuides(d, ul)

\* onReorder is given the id of the first item of the list
onDropFirstItem(d, ul, clientY) ==
  IF d.activeUL # ul \/ d.draggingId[ul] = NULL THEN d
  ELSE [setInactive(clearAll(withReorder(d, ul, getRealItems(ul)[1].id,
                                         indexFromPointer(ul, clientY)), ul))
          EXCEPT !.draggingId[ul] = NULL]

onDrop(d, ul, clientY) ==
  IF d.activeUL # ul \/ d.draggingId[ul] = NULL THEN d
  ELSE [setInactive(clearAll(withReorder(d, ul, d.draggingId[ul],
                                         indexFromPointer(ul, clientY)), ul))
          EXCEPT !.draggingId[ul] = NULL]

onDragEnd(d, ul) ==
  IF d.activeUL # ul THEN d
  ELSE [setInactive(clearAll(d, ul)) EXCEPT !.draggingId[ul] = NULL]

\* the document's dragover listener
documentDragOver(d, p) ==
  IF d.activeUL = NULL \/ d.activeAPI = NULL THEN d
  ELSE IF ~allowGlobalEdges THEN d
  ELSE IF insideUl(getRect(d.activeAPI), p) THEN d
  ELSE paintGuideByIndex(clearGuides(d, d.activeAPI), d.activeAPI,
                         indexFromPointer(d.activeAPI, p.y))

\* the document's drop listener: draggingId of the list is left as it is
documentDrop(d, p) ==
  IF d.activeUL = NULL \/ d.activeAPI = NULL THEN d
  ELSE IF insideUl(getRect(d.activeAPI), p) THEN d
  ELSE setInactive(
         clearAll(IF d.draggingId[d.activeAPI] # NULL
                  THEN withReorder(d, d.activeAPI, d.draggingId[d.activeAPI],
                                   indexFromPointer(d.activeAPI, p.y))
                  ELSE d,
                  d.activeAPI))

\* the attached list the pointer is over, null when it is over none
targetList(p) ==
  IF \E ul \in DragLists : insideUl(getRect(ul), p)
  THEN CHOOSE ul \in DragLists : insideUl(getRect(ul), p)
  ELSE NULL

\* where the pointer may be: over list A (top zone, new-entry row, lower
\* item, bottom zone), over list B (top zone, both zones, bottom zone),
\* above, between and below the lists, and to the right of list A
PointInputs ==
  {[x |-> 50, y |-> y] : y \in {0 - 20, 10, 50, 70, 90, 150, 210, 220, 235, 300}}
    \cup {[x |-> 150, y |-> 50]}

DragEvent(type, ul, p) == [type |-> type, ul |-> ul, x |-> p.x, y |-> p.y]
NoPoint == [x |-> 0, y |-> 0]

\* before any drag
DragIdle ==
  /\ activeUL = NULL
  /\ activeAPI = NULL
  /\ draggingId = [ul \in DragLists |-> NULL]
  /\ guideAttr = [ul \in DragLists |-> [id \in ItemIds(ul) |-> "none"]]
  /\ guideClass = [ul \in DragLists |-> {}]
  /\ draggingClass = [ul \in DragLists |-> {}]
  /\ reorders = <<>>
  /\ gesture = [phase |-> "idle", ul |-> NULL, id |-> NULL]
  /\ lastEvent = DragEvent("none", NULL, NoPoint)

\* what every drag event does to the state: d is the helper's state after
\* the listeners ran, g the gesture afterwards
Dispatch(ev, d, g) ==
  /\ calls < MaxEvents
  /\ calls' = calls + 1
  /\ activeUL' = d.activeUL
  /\ activeAPI' = d.activeAPI
  /\ draggingId' = d.draggingId
  /\ guideAttr' = d.guideAttr
  /\ guideClass' = d.guideClass
  /\ draggingClass' = d.draggingClass
  /\ reorders' = d.reorders
  /\ gesture' = g
  /\ lastEvent' = ev
  /\ UNCHANGED <<scheduleVars, storageVars, nextId, log, mountVars, controllerVars>>

\* dragstart on row k of list ul: the list's listener
DragStart(ul, k) ==
  /\ calls < MaxEvents
  /\ Dispatch(DragEvent("dragstart", ul, NoPoint),
              onDragStart([DragState EXCEPT !.reorders = <<>>], ul, RowsOf(ul)[k]),
              [phase |-> "dragging", ul |-> ul, id |-> RowsOf(ul)[k].id])

\* dragover at p: the listener of the list under the pointer, then the
\* document's
DragOver(p) ==
  /\ calls < MaxEvents
  /\ Dispatch(DragEvent("dragover", targetList(p), p),
              documentDragOver(IF targetList(p) = NULL THEN DragState
                               ELSE onDragOver(DragState, targetList(p), p.y),
                               p),
              gesture)

DragLeave(ul, relatedInside) ==
  /\ calls < MaxEvents
  /\ Dispatch(DragEvent("dragleave", ul, NoPoint),
              onDragLeave(DragState, ul, relatedInside),
              gesture)

\* drop at p: the listener of the list under the pointer, then the
\* document's
Drop(p) ==
  /\ calls < MaxEvents
  /\ Dispatch(DragEvent("drop", targetList(p), p),
              documentDrop(IF targetList(p) = NULL THEN DragState
                           ELSE onDrop(DragState, targetList(p), p.y),
                           p),
              [gesture EXCEPT !.phase = "dropped"])

\* dragend, dispatched at the dragged row: the listener of its list
DragEnd(ul) ==
  /\ calls < MaxEvents
  /\ Dispatch(DragEvent("dragend", ul, NoPoint),
              onDragEnd(DragState, ul),
              [gesture EXCEPT !.phase = "idle"])

\* the order in which a browser dispatches the events of a gesture:
\* dragstart, then dragover and dragleave, a drop only where a dragover
\* listener called preventDefault, and dragend at the list of the dragged
\* row
MayStart == gesture.phase = "idle"
MayMove == gesture.phase = "dragging"
MayDrop == gesture.phase = "dragging" /\ activeUL # NULL /\ activeAPI # NULL
MayEnd(ul) == gesture.phase \in {"dragging", "dropped"} /\ gesture.ul = ul

(* ------------------------------------------------------------------ *)
(* The time utilities of schedule.js called directly                    *)
(* ------------------------------------------------------------------ *)
\* a time of day, and the string that names it
TimeOfDay(h, m) == [h |-> h, m |-> m]
timeString(t) == Pad2(t.h) \o <<":">> \o Pad2(t.m)

\* every time of day, the second arguments tried with each of them, and
\* the minute counts added
TimesOfDay == { TimeOfDay(h, m) : h \in 0..23, m \in 0..59 }
SecondTimes ==
  { TimeOfDay(0, 0), TimeOfDay(0, 15), TimeOfDay(8, 0), TimeOfDay(12, 1),
    TimeOfDay(23, 30), TimeOfDay(23, 59) }
MinuteCounts == { 0, 45, 60, 1439, 1440, 2945 }

TimeCall(op, a, b, n) == [op |-> op, a |-> a, b |-> b, n |-> n]

\* one call of a time utility on the arguments drawn when the behaviour began
TimeStep(op, n, value) ==
  /\ listCall.op = "times"
  /\ listCall' = TimeCall(op, listCall.a, listCall.b, n)
  /\ result' = value
  /\ calls' = calls + 1
  /\ UNCHANGED <<content, nextId, lastCall, before, log, store, storeBefore, dragVars, mountVars,
               controllerVars>>

DiffForward ==
  TimeStep("diffForward", 0, diffForward(timeString(listCall.a), timeString(listCall.b)))

AddMinutes(n) ==
  TimeStep("addMinutes", n, addMinutes(timeString(listCall.a), n))

\* addMinutes(a, diffForward(a, b))
AddDiffForward ==
  TimeStep("addDiffForward", 0,
           addMinutes(timeString(listCall.a),
                      diffForward(timeString(listCall.a), timeString(listCall.b))))

(* ------------------------------------------------------------------ *)
(* What localStorage may hold when the page loads                       *)
(* ------------------------------------------------------------------ *)
StoredComponent(name, value, position) ==
  [name |-> name, title |-> Capitalized[name], content |-> value, position |-> position]

\* a project just created, and one used before: a team member, and a
\* checklist whose content is not an array
FreshDoc == ProjectDoc(FALSE, <<>>, 0)
UsedDoc ==
  ProjectDoc(TRUE,
             <<StoredComponent("team", JArr(<<PairItem("t0", <<"r">>, <<"n">>)>>), 1),
               StoredComponent("checklist", JNum, 2)>>,
             0)

InitialPointers ==
  {Absent, Garbage, JSONstringify(ActivePointer(NULL)), JSONstringify(ActivePointer("p1"))}

InitialDocs ==
  {Absent, Garbage, JSONstringify(JNull), JSONstringify(JNum),
   JSONstringify(FreshDoc), JSONstringify(UsedDoc)}

LoadedList ==
  JSONstringify(ProjectList(<<ProjectEntry("p1", "P1", 0, 0), ProjectEntry("p2", "P2", 0, 0)>>))

InitialLists == {Absent, LoadedList}

StoreOf(pointer, doc, list) ==
  [key \in StorageKeys |->
     IF key = STORAGE_KEY_ACTIVE_PROJECT THEN pointer
     ELSE IF key = STORAGE_KEY_PROJECT_LIST THEN list
     ELSE IF key = keyForProject("p1") THEN doc
     ELSE IF key = keyForProject(projectUid) THEN Absent
     ELSE JSONstringify(UsedDoc)]

InitialStores ==
  {StoreOf(pointer, doc, list) :
     pointer \in InitialPointers, doc \in InitialDocs, list \in InitialLists}

\* the store of a project just created and made active
LoadedStore ==
  StoreOf(JSONstringify(ActivePointer("p1")), JSONstringify(FreshDoc), LoadedList)

\* the project list with an id listed twice, as setProjectList accepts it
TwiceList ==
  JSONstringify(ProjectList(<<ProjectEntry("p1", "P1", 0, 0), ProjectEntry("p2", "P2", 0, 0),
                              ProjectEntry("p1", "P1b", 0, 0)>>))

ProjectPointers ==
  InitialPointers \cup {JSONstringify(FullPointer("p2", "P2", 0, 0))}

ProjectLists == {Absent, Garbage, LoadedList, TwiceList}

ProjectStores ==
  {StoreOf(pointer, doc, list) :
     pointer \in ProjectPointers, doc \in InitialDocs, list \in ProjectLists}

ProjectIdInputs == ProjectIds \cup {""}
TitleInputs == {"", "T"}
DetailInputs == {NotAString, <<" ">>, <<"p", "1">>, <<" ", "p", "2", " ">>}

\* the mutating calls of the list Models, and which write of a call is
\* refused
MutationInputs ==
  {ListCall("add", "checklist", "", text, <<>>, 0, JUndef) : text \in TextInputs}
    \cup {ListCall("toggle", "checklist", id, <<>>, <<>>, 0, JUndef) : id \in ListIdInputs}
    \cup {ListCall("updateText", "checklist", id, text, <<>>, 0, JUndef) :
             id \in ListIdInputs, text \in TextInputs}
    \cup {ListCall("remove", m, id, <<>>, <<>>, 0, JUndef) :
             m \in ComponentNames, id \in ListIdInputs}
    \cup {ListCall("moveToIndex", m, id, <<>>, <<>>, toIndex, JUndef) :
             m \in ComponentNames, id \in ListIdInputs, toIndex \in IndexInputs}
    \cup {ListCall("add", m, "", first, second, 0, JUndef) :
             m \in PairModels, first \in TextInputs, second \in TextInputs}
    \cup {ListCall("update", m, id, patch[1], patch[2], 0, JUndef) :
             m \in PairModels, id \in ListIdInputs, patch \in PatchInputs}
MaxWrites == 2

ComponentInputs == ComponentNames \cup {""}
ContentInputs ==
  {JArr(<<>>), JArr(<<CheckItem("c0", <<"x">>, TRUE)>>), JNull, JUndef}

(* ------------------------------------------------------------------ *)
(* Specification                                                       *)
(* ------------------------------------------------------------------ *)
Init ==
  /\ content = <<>>
  /\ nextId = 1
  /\ lastCall = Call("init", "", <<>>, <<>>, 0)
  /\ before = <<>>
  /\ calls = 0
  /\ log = <<>>
  /\ store = LoadedStore
  /\ storeBefore = store
  /\ listCall = ListCall("init", "", "", <<>>, <<>>, 0, JUndef)
  /\ result = [threw |-> FALSE, value |-> JUndef]
  /\ DragIdle
  /\ MountIdle
  /\ ControllerIdle

Next ==
  \/ \E text \in TextInputs, time \in TimeInputs : Add(text, time)
  \/ \E id \in IdInputs, text \in TextInputs : UpdateText(id, text)
  \/ \E id \in IdInputs, time \in TimeInputs : UpdateTime(id, time)
  \/ \E id \in IdInputs : Remove(id)
  \/ \E id \in IdInputs, toIndex \in IndexInputs : MoveToIndexWithReflow(id, toIndex)

Spec == Init /\ [][Next]_vars

\* the calls that touch times only
NextTimes ==
  \/ \E text \in TextInputs, time \in TimeInputs : Add(text, time)
  \/ \E id \in IdInputs, time \in TimeInputs : UpdateTime(id, time)
  \/ \E id \in IdInputs, toIndex \in IndexInputs : MoveToIndexWithReflow(id, toIndex)

SpecTimes == Init /\ [][NextTimes]_vars

\* whatever localStorage held when the page loaded
InitStorage ==
  /\ content = <<>>
  /\ nextId = 1
  /\ lastCall = Call("init", "", <<>>, <<>>, 0)
  /\ before = <<>>
  /\ calls = 0
  /\ log = <<>>
  /\ store \in InitialStores
  /\ storeBefore = store
  /\ listCall = ListCall("init", "", "", <<>>, <<>>, 0, JUndef)
  /\ result = [threw |-> FALSE, value |-> JUndef]
  /\ DragIdle
  /\ MountIdle
  /\ ControllerIdle

\* the list Models, with the project list in place
InitLists ==
  /\ InitStorage
  /\ store[STORAGE_KEY_PROJECT_LIST] # Absent

NextLists ==
  \/ \E m \in ComponentNames : GetAll(m)
  \/ \E text \in TextInputs : ListAdd(text)
  \/ \E id \in ListIdInputs : ListToggle(id)
  \/ \E id \in ListIdInputs, text \in TextInputs : ListUpdateText(id, text)
  \/ \E m \in ComponentNames, id \in ListIdInputs : ListRemove(m, id)
  \/ \E m \in ComponentNames, id \in ListIdInputs, toIndex \in IndexInputs :
       ListMoveToIndex(m, id, toIndex)
  \/ \E m \in PairModels, first \in TextInputs, second \in TextInputs :
       PairAdd(m, first, second)
  \/ \E m \in PairModels, id \in ListIdInputs, patch \in PatchInputs :
       PairUpdate(m, id, patch[1], patch[2])

SpecLists == InitLists /\ [][NextLists]_vars

\* the schedule Model and the list Models: a behaviour follows one of
\* them, the schedule on the store of a project just created
ScheduleStep ==
  /\ listCall.op = "init"
  /\ store = LoadedStore

NextModels ==
  \/ \E text \in TextInputs, time \in TimeInputs : ScheduleStep /\ Add(text, time)
  \/ \E id \in IdInputs, text \in TextInputs : ScheduleStep /\ UpdateText(id, text)
  \/ \E id \in IdInputs, time \in TimeInputs : ScheduleStep /\ UpdateTime(id, time)
  \/ \E id \in IdInputs : ScheduleStep /\ Remove(id)
  \/ \E id \in IdInputs, toIndex \in IndexInputs :
       ScheduleStep /\ MoveToIndexWithReflow(id, toIndex)
  \/ NextLists

SpecModels == InitLists /\ [][NextModels]_vars

\* core/storage called directly
NextStorage ==
  \/ \E componentName \in ComponentInputs : GetComponentContent(componentName)
  \/ \E componentName \in ComponentInputs, value \in ContentInputs :
       SetComponentContent(componentName, value)

SpecStorage == InitStorage /\ [][NextStorage]_vars

\* the list Models, with localStorage full at times
NextFaults ==
  \/ NextLists
  \/ \E c \in MutationInputs, k \in 1..MaxWrites : WithStorageFull(c, k)

SpecFaults == InitLists /\ [][NextFaults]_vars

\* projects, the project list and the active pointer
InitProjects ==
  /\ content = <<>>
  /\ nextId = 1
  /\ lastCall = Call("init", "", <<>>, <<>>, 0)
  /\ before = <<>>
  /\ calls = 0
  /\ log = <<>>
  /\ store \in ProjectStores
  /\ storeBefore = store
  /\ listCall = ListCall("init", "", "", <<>>, <<>>, 0, JUndef)
  /\ result = [threw |-> FALSE, value |-> JUndef]
  /\ DragIdle
  /\ MountIdle
  /\ ControllerIdle

NextProjects ==
  \/ GetActiveProject
  \/ GetActiveProjectId
  \/ \E id \in ProjectIdInputs : IsProjectActive(id)
  \/ \E id \in ProjectIdInputs : GetProject(id)
  \/ \E id \in ProjectIdInputs : DeleteProject(id)
  \/ \E id \in ProjectIdInputs, nextTitle \in TitleInputs : RenameProjectInList(id, nextTitle)
  \/ \E found \in BOOLEAN : NewPlanRequested(found)
  \/ \E detail \in DetailInputs : SelectProject(detail)

SpecProjects == InitProjects /\ [][NextProjects]_vars

\* the drag events, in the browser's order
NextDrag ==
  \/ \E ul \in DragLists, k \in 1..3 :
       k <= Len(RowsOf(ul)) /\ MayStart /\ DragStart(ul, k)
  \/ \E p \in PointInputs : MayMove /\ DragOver(p)
  \/ \E ul \in DragLists, relatedInside \in BOOLEAN :
       MayMove /\ DragLeave(ul, relatedInside)
  \/ \E p \in PointInputs : MayDrop /\ Drop(p)
  \/ \E ul \in DragLists : MayEnd(ul) /\ DragEnd(ul)

SpecDrag == Init /\ [][NextDrag]_vars

\* the drag events in any order
NextDragAny ==
  \/ \E ul \in DragLists, k \in 1..3 : k <= Len(RowsOf(ul)) /\ DragStart(ul, k)
  \/ \E p \in PointInputs : DragOver(p)
  \/ \E ul \in DragLists, relatedInside \in BOOLEAN : DragLeave(ul, relatedInside)
  \/ \E p \in PointInputs : Drop(p)
  \/ \E ul \in DragLists : DragEnd(ul)

SpecDragAny == Init /\ [][NextDragAny]_vars

\* the schedule Model on a schedule that was stored with a sentinel
\* whose text is empty
StoredSchedules ==
  { <<Item(uid(1), <<"x">>, T0800), Item(END_ID, <<>>, T2330)>> }

InitStored ==
  /\ content \in StoredSchedules
  /\ nextId = 2
  /\ lastCall = Call("init", "", <<>>, <<>>, 0)
  /\ before = content
  /\ calls = 0
  /\ log = <<>>
  /\ store = LoadedStore
  /\ storeBefore = store
  /\ listCall = ListCall("init", "", "", <<>>, <<>>, 0, JUndef)
  /\ result = [threw |-> FALSE, value |-> JUndef]
  /\ DragIdle
  /\ MountIdle
  /\ ControllerIdle

SpecStored == InitStored /\ [][Next]_vars

\* the page loads: startApp() runs first, on whatever localStorage held
NextStartApp ==
  \E answer \in Availabilities : listCall.op = "init" /\ StartApp(answer)

SpecStartApp == InitProjects /\ [][NextStartApp]_vars

\* the project index, empty when the page loads
IndexStores ==
  {StoreOf(pointer, JSONstringify(FreshDoc), list) :
     pointer \in {Absent, JSONstringify(FullPointer("p1", "P1", 0, 0))},
     list \in {Absent, JSONstringify(ProjectList(<<>>))}}

IndexTitles == {"", "T", "U"}

InitIndex ==
  /\ content = <<>>
  /\ nextId = 1
  /\ lastCall = Call("init", "", <<>>, <<>>, 0)
  /\ before = <<>>
  /\ calls = 0
  /\ log = <<>>
  /\ store \in IndexStores
  /\ storeBefore = store
  /\ listCall = ListCall("init", "", "", <<>>, <<>>, 0, JUndef)
  /\ result = [threw |-> FALSE, value |-> JUndef]
  /\ DragIdle
  /\ MountIdle
  /\ ControllerIdle

NextIndex ==
  \/ \E id \in ProjectIdInputs, title \in IndexTitles : AddProjectToList(id, title)
  \/ \E id \in ProjectIdInputs : RemoveProjectFromList(id)
  \/ \E id \in ProjectIdInputs, nextTitle \in IndexTitles : RenameProjectInList(id, nextTitle)
  \/ \E id \in ProjectIdInputs : TouchProjectInList(id)
  \/ \E id \in ProjectIdInputs : DeleteProject(id)

SpecIndex == InitIndex /\ [][NextIndex]_vars

\* the checklist of the active project holds three items, checked or not
PaneStores ==
  {StoreOf(JSONstringify(ActivePointer("p1")),
           JSONstringify(ProjectDoc(TRUE,
                                    <<StoredComponent(
                                        "checklist",
                                        JArr([k \in 1..3 |-> CheckItem(uid(k), <<"x">>, checked[k])]),
                                        1)>>,
                                    0)),
           LoadedList)
     : checked \in [1..3 -> BOOLEAN]}

InitPanes ==
  /\ content = <<>>
  /\ nextId = 4
  /\ lastCall = Call("init", "", <<>>, <<>>, 0)
  /\ before = <<>>
  /\ calls = 0
  /\ log = <<>>
  /\ store \in PaneStores
  /\ storeBefore = store
  /\ listCall = ListCall("init", "", "", <<>>, <<>>, 0, JUndef)
  /\ result = [threw |-> FALSE, value |-> JUndef]
  /\ DragIdle
  /\ MountIdle
  /\ ControllerIdle

NextPanes ==
  \/ \E pane \in Panes, draggedId \in {uid(k) : k \in 1..3}, toIndex \in 0..3 :
       PaneDrop(pane, draggedId, toIndex)
  \/ \E id \in {uid(k) : k \in 1..3} : ListToggle(id)

SpecPanes == InitPanes /\ [][NextPanes]_vars

\* the list Controllers: create gestures with localStorage full at times,
\* and the other gestures that write
NextCreate ==
  \/ \E typed \in TextInputs, k \in 0..MaxWrites : Create(typed, k)
  \/ \E m \in PairModels, typed \in TextInputs, k \in 0..MaxWrites :
       PairCreate(m, typed, typed, k)
  \/ \E id \in ListIdInputs : ListToggle(id)
  \/ \E m \in ComponentNames, id \in ListIdInputs : ListRemove(m, id)

SpecCreate == InitLists /\ [][NextCreate]_vars

\* two stored projects with mounted components, none of them active when
\* the page has loaded
MountedComponent(name, position, state) ==
  [name |-> name, title |-> name, content |-> JArr(<<>>), position |-> position,
   state |-> state]

MountDocs ==
  [p1 |-> ProjectDoc(TRUE,
                     <<MountedComponent("checklist", 1, "mounted"),
                       MountedComponent("schedule", 2, "mounted"),
                       MountedComponent("stepslist", 3, "unmounted")>>,
                     0),
   p2 |-> ProjectDoc(TRUE,
                     <<MountedComponent("checklist", 1, "mounted"),
                       MountedComponent("supplieslist", 2, "mounted")>>,
                     0)]

MountStores ==
  {[key \in StorageKeys |->
      IF key = STORAGE_KEY_ACTIVE_PROJECT THEN pointer
      ELSE IF key = STORAGE_KEY_PROJECT_LIST THEN LoadedList
      ELSE IF key = keyForProject("p1") THEN JSONstringify(MountDocs.p1)
      ELSE IF key = keyForProject("p2") THEN JSONstringify(MountDocs.p2)
      ELSE Absent]
     : pointer \in {Absent, JSONstringify(ActivePointer(NULL))}}

MountDetails == {NotAString, <<"p", "1">>, <<" ", "p", "2", " ">>, <<"p", "3">>}

InitMounts ==
  /\ content = <<>>
  /\ nextId = 1
  /\ lastCall = Call("init", "", <<>>, <<>>, 0)
  /\ before = <<>>
  /\ calls = 0
  /\ log = <<>>
  /\ store \in MountStores
  /\ storeBefore = store
  /\ listCall = ListCall("init", "", "", <<>>, <<>>, 0, JUndef)
  /\ result = [threw |-> FALSE, value |-> JUndef]
  /\ DragIdle
  /\ MountIdle
  /\ ControllerIdle

\* app:select-project events, and the waiting mounts resuming in whatever
\* order the Prompt API answers
NextMounts ==
  \/ \E detail \in MountDetails : SelectProject(detail)
  \/ \E k \in 1..MaxCalls : MountResumes(k)

SpecMounts == InitMounts /\ [][NextMounts]_vars

\* the time utilities, on every time of day
InitTimeUtils ==
  /\ content = <<>>
  /\ nextId = 1
  /\ lastCall = Call("init", "", <<>>, <<>>, 0)
  /\ before = <<>>
  /\ calls = 0
  /\ log = <<>>
  /\ store = LoadedStore
  /\ storeBefore = store
  /\ listCall \in { TimeCall("times", a, b, 0) : a \in TimesOfDay, b \in SecondTimes }
  /\ result = [threw |-> FALSE, value |-> JUndef]
  /\ DragIdle
  /\ MountIdle
  /\ ControllerIdle

NextTimeUtils ==
  \/ DiffForward
  \/ \E n \in MinuteCounts : AddMinutes(n)
  \/ AddDiffForward

SpecTimeUtils == InitTimeUtils /\ [][NextTimeUtils]_vars

(* ------------------------------------------------------------------ *)
(* Vocabulary of the properties                                        *)
(* ------------------------------------------------------------------ *)
\* what getAll() returns now, and what it returned when the last call started
Now  == getAll(content)
Prev == getAll(before)

Activities(items) == WithoutId(items, END_ID)

IdsOf(items) == [k \in 1..Len(items) |-> items[k].id]
TimesOf(items) == [k \in 1..Len(items) |-> items[k].time]

\* position (1-based) of id in items, 0 when absent
PosOf(items, id) == findIndex(items, id) + 1

\* the last call reached _write
Wrote == log # <<>>

\* an HH:MM string that names a time of day
ValidTime(s) ==
  /\ IsHHMM(s)
  /\ DigitVal(s[1]) * 10 + DigitVal(s[2]) <= 23
  /\ DigitVal(s[4]) * 10 + DigitVal(s[5]) <= 59

\* minutes from time a forward to time b, wrapping past midnight
Forward(a, b) == (toMinutes(b) - toMinutes(a)) % MinutesPerDay

LastCallIs(op) == lastCall.op = op

\* the HH:MM string of hour h and minute m
Clock(h, m) == Pad2(h) \o <<":">> \o Pad2(m)

\* forward difference from the k-th item's time to the time of the item after it
GapAfter(items, k) == Forward(items[k].time, items[k + 1].time)

(* ------------------------------------------------------------------ *)
(* C1                                                                  *)
(* ------------------------------------------------------------------ *)
\* C1: starting from an empty schedule, after any sequence of add,
\* updateTime and moveToIndexWithReflow calls, whenever at least one
\* activity and the END sentinel exist, the forward (24h-wrapping)
\* difference from the last activity's time to the sentinel's time is at
\* least 15 minutes.
C1_SentinelGap ==
  (Activities(Now) # <<>> /\ hasEnd(Now)) =>
    GapAfter(Now, Len(Now) - 1) >= MIN_GAP_MINUTES

(* ------------------------------------------------------------------ *)
(* C2                                                                  *)
(* ------------------------------------------------------------------ *)
\* a = 08:00, b = 09:00, c = 10:00 in that order, sentinel 11:00
ReferenceSchedule(items) ==
  /\ IdsOf(items) = <<"a", "b", "c", END_ID>>
  /\ TimesOf(items) = <<Clock(8, 0), Clock(9, 0), Clock(10, 0), Clock(11, 0)>>

DragOfAInReference(toIndex) ==
  /\ LastCallIs("moveToIndexWithReflow")
  /\ lastCall.id = "a"
  /\ lastCall.toIndex = toIndex
  /\ ReferenceSchedule(Prev)

\* C2 as stated: in the reference schedule moveToIndexWithReflow("a", 2)
\* produces the order [b, c, a] with times b = 08:00, c = 09:00,
\* a = 10:00 and sentinel 11:00.
C2_ReferenceAsStated ==
  DragOfAInReference(2) =>
    /\ IdsOf(Now) = <<"b", "c", "a", END_ID>>
    /\ TimesOf(Now) = <<Clock(8, 0), Clock(9, 0), Clock(10, 0), Clock(11, 0)>>

\* C2 amended: in the reference schedule the order [b, c, a] with times
\* b = 08:00, c = 09:00, a = 10:00, sentinel 11:00 is produced by
\* moveToIndexWithReflow("a", 3); moveToIndexWithReflow("a", 2) produces
\* [b, a, c] with times b = 08:00, a = 09:00, c = 10:00, sentinel 11:00.
C2_ReferenceAmended ==
  /\ DragOfAInReference(3) =>
       /\ IdsOf(Now) = <<"b", "c", "a", END_ID>>
       /\ TimesOf(Now) = <<Clock(8, 0), Clock(9, 0), Clock(10, 0), Clock(11, 0)>>
  /\ DragOfAInReference(2) =>
       /\ IdsOf(Now) = <<"b", "a", "c", END_ID>>
       /\ TimesOf(Now) = <<Clock(8, 0), Clock(9, 0), Clock(10, 0), Clock(11, 0)>>

C2_Witness ==
  /\ DragOfAInReference(3)
  /\ Wrote
  /\ IdsOf(Now) = <<"b", "c", "a", END_ID>>

(* ------------------------------------------------------------------ *)
(* C3                                                                  *)
(* ------------------------------------------------------------------ *)
\* C3: after a moveToIndexWithReflow call that reached _write, for every
\* activity x the forward difference from x's new time to the time of the
\* item that now follows it equals the forward difference from x's old time
\* to the time of the item that followed it before the move (the sentinel
\* being the item after the last activity).
C3_DurationPreserved ==
  (LastCallIs("moveToIndexWithReflow") /\ Wrote) =>
    \A k \in 1..(Len(Now) - 1) :
      /\ PosOf(Prev, Now[k].id) \in 1..(Len(Prev) - 1)
      /\ GapAfter(Now, k) = GapAfter(Prev, PosOf(Prev, Now[k].id))

\* a move that changed the order of activities whose durations differ
C3_Witness ==
  /\ LastCallIs("moveToIndexWithReflow")
  /\ Wrote
  /\ IdsOf(Now) # IdsOf(Prev)
  /\ \E k \in 1..(Len(Prev) - 1) : GapAfter(Prev, k) # GapAfter(Prev, 1)
  /\ \E k \in 1..(Len(Now) - 1) : Now[k].time # Prev[k].time

(* ------------------------------------------------------------------ *)
(* C4                                                                  *)
(* ------------------------------------------------------------------ *)
\* exactly one item has id END_ID and it is the last one
EndInPlace(items) ==
  /\ items # <<>>
  /\ items[Len(items)].id = END_ID
  /\ Cardinality({k \in 1..Len(items) : items[k].id = END_ID}) = 1

\* C4: if getAll() contained exactly one END item, as its last element,
\* when a call of add, updateText, updateTime, remove (remove(END_ID)
\* included) or moveToIndexWithReflow (draggedId = END_ID included)
\* started, it still does when the call has returned.
C4_SentinelKept == EndInPlace(Prev) => EndInPlace(Now)

\* remove(END_ID) was called on a schedule with a sentinel
C4_Witness ==
  /\ LastCallIs("remove")
  /\ lastCall.id = END_ID
  /\ EndInPlace(Prev)
  /\ EndInPlace(Now)

(* ------------------------------------------------------------------ *)
(* C5                                                                  *)
(* ------------------------------------------------------------------ *)
\* C5: in every state reachable from an empty schedule, whatever strings
\* were passed as times, every non-sentinel item's time is an HH:MM
\* string with hour in 00..23 and minute in 00..59.
C5_ValidTimes ==
  \A k \in 1..Len(Now) : Now[k].id # END_ID => ValidTime(Now[k].time)

(* ------------------------------------------------------------------ *)
(* C6                                                                  *)
(* ------------------------------------------------------------------ *)
\* the activities are in non-decreasing order of the minute of the day
\* the program reads from their times
AscendingByTime(activities) ==
  \A i, j \in 1..Len(activities) :
    i < j => toMinutes(activities[i].time) <= toMinutes(activities[j].time)

\* C6: after every updateTime(id, time) call with a time in HH:MM format,
\* the activities returned by getAll() are in ascending (non-decreasing)
\* order of time and the sentinel follows them.
C6_SortedAfterUpdateTime ==
  (LastCallIs("updateTime") /\ IsHHMM(lastCall.time)) =>
    /\ Wrote
    /\ AscendingByTime(Activities(Now))
    /\ EndInPlace(Now)

\* an updateTime call after which the activities stand in another order
C6_Witness ==
  /\ LastCallIs("updateTime")
  /\ IsHHMM(lastCall.time)
  /\ Len(Activities(Now)) >= 2
  /\ IdsOf(Now) # IdsOf(Prev)
  /\ ~AscendingByTime([k \in 1..Len(Activities(Prev)) |->
         IF Prev[k].id = lastCall.id THEN [Prev[k] EXCEPT !.time = lastCall.time]
         ELSE Prev[k]])

(* ------------------------------------------------------------------ *)
(* C7                                                                  *)
(* ------------------------------------------------------------------ *)
\* C7: when updateTime re-sorts, any two activities that end up with
\* equal times keep the relative order they had immediately before the call.
C7_StableSort ==
  (LastCallIs("updateTime") /\ Wrote) =>
    \A i, j \in 1..Len(Activities(Now)) :
      (i < j /\ toMinutes(Now[i].time) = toMinutes(Now[j].time)) =>
        /\ PosOf(Prev, Now[i].id) >= 1
        /\ PosOf(Prev, Now[i].id) < PosOf(Prev, Now[j].id)

\* an updateTime call that made the times of two activities equal, the
\* one created later standing first
C7_Witness ==
  /\ LastCallIs("updateTime")
  /\ Wrote
  /\ \E i \in 1..(Len(Activities(Now)) - 1) :
       /\ Now[i].time = Now[i + 1].time
       /\ Now[i].id = "b"
       /\ Now[i + 1].id = "a"
       /\ lastCall.id \in {"a", "b"}
       /\ Prev[PosOf(Prev, lastCall.id)].time # lastCall.time

(* ------------------------------------------------------------------ *)
(* C8                                                                  *)
(* ------------------------------------------------------------------ *)
\* C8: add(text, time) with non-empty text: on an empty list (time being a
\* time of day) it stores the new activity at `time` followed by a
\* sentinel 60 minutes later (wrapping); on a list that has a sentinel it
\* appends the new activity after all existing activities with the
\* sentinel's current time and moves the sentinel 60 minutes forward
\* (wrapping), leaving every existing activity unchanged.
C8_LazySentinel ==
  (LastCallIs("add") /\ Trim(lastCall.text) # <<>>) =>
    /\ Wrote
    /\ (Prev = <<>> /\ ValidTime(lastCall.time)) =>
         /\ Len(Now) = 2
         /\ Now[1].id # END_ID
         /\ Now[1].text = Trim(lastCall.text)
         /\ Now[1].time = lastCall.time
         /\ Now[2].id = END_ID
         /\ ValidTime(Now[2].time)
         /\ Forward(lastCall.time, Now[2].time) = 60
    /\ hasEnd(Prev) =>
         LET n == Len(Prev) IN
         /\ Len(Now) = n + 1
         /\ SubSeq(Now, 1, n - 1) = Activities(Prev)
         /\ \A k \in 1..n : Prev[k].id # Now[n].id
         /\ Now[n].text = Trim(lastCall.text)
         /\ Now[n].time = Prev[n].time
         /\ Now[n + 1].id = END_ID
         /\ Now[n + 1].text = Prev[n].text
         /\ ValidTime(Now[n + 1].time)
         /\ Forward(Prev[n].time, Now[n + 1].time) = 60

\* an add on a list with activities and a sentinel whose time is not the
\* `time` argument and is less than an hour before midnight
C8_Witness ==
  /\ LastCallIs("add")
  /\ Wrote
  /\ hasEnd(Prev)
  /\ Len(Prev) >= 2
  /\ Prev[Len(Prev)].time # lastCall.time
  /\ toMinutes(Now[Len(Now)].time) < toMinutes(Prev[Len(Prev)].time)

(* ------------------------------------------------------------------ *)
(* C9                                                                  *)
(* ------------------------------------------------------------------ *)
\* C9: updateTime(id, time) with a time that is not in HH:MM format
\* changes no item, writes nothing and emits no change notification.
C9_MalformedTimeRejected ==
  (LastCallIs("updateTime") /\ ~IsHHMM(lastCall.time)) =>
    /\ content = before
    /\ log = <<>>

\* updateTime of an existing activity with a time that is not HH:MM
C9_Witness ==
  /\ LastCallIs("updateTime")
  /\ ~IsHHMM(lastCall.time)
  /\ PosOf(Activities(Prev), lastCall.id) >= 1
  /\ toMinutes(lastCall.time) # toMinutes(Prev[PosOf(Prev, lastCall.id)].time)

(* ------------------------------------------------------------------ *)
(* C10                                                                 *)
(* ------------------------------------------------------------------ *)
\* C10: whenever the dragged activity was first before
\* moveToIndexWithReflow, the activity that is first after the move has
\* the time the first activity had before the move.
C10_AnchorRule ==
  (LastCallIs("moveToIndexWithReflow") /\ Wrote /\ Prev[1].id = lastCall.id) =>
    Now[1].time = Prev[1].time

\* the first activity was dragged away and another one, whose time was
\* different, became first
C10_Witness ==
  /\ LastCallIs("moveToIndexWithReflow")
  /\ Wrote
  /\ Prev[1].id = lastCall.id
  /\ Now[1].id # lastCall.id
  /\ Prev[PosOf(Prev, Now[1].id)].time # Prev[1].time

(* ------------------------------------------------------------------ *)
(* Vocabulary of the properties of the list Models and of core/storage  *)
(* ------------------------------------------------------------------ *)
\* the items stored for component m in the active project of store s; no
\* items when there is no such project or the content is not an array
StoredItems(s, m) ==
  LET ctx == readActiveProjectModelOrNull(s) IN
  IF ~ctx.ok \/ ctx.model.t # "object" \/ ~ctx.model.hasComponents THEN <<>>
  ELSE LET hits == {k \in 1..Len(ctx.model.components) :
                      ctx.model.components[k].name = m}
       IN IF hits = {} THEN <<>>
          ELSE LET c == ctx.model.components[CHOOSE k \in hits : \A j \in hits : k <= j].content
               IN IF c.t = "array" THEN c.items ELSE <<>>

\* the list of the Model called last, before and after that call
ListPrev == StoredItems(storeBefore, listCall.m)
ListNow  == StoredItems(store, listCall.m)

ListCallIs(op) == listCall.op = op

\* how often the last call wrote, and how often it notified
CountOf(seq, x) == Cardinality({k \in 1..Len(seq) : seq[k] = x})
Writes == CountOf(log, "write")
Changes == CountOf(log, "change")

Clamp(toIndex, len) == Max2(0, Min2(len, toIndex))

(* ------------------------------------------------------------------ *)
(* C11                                                                 *)
(* ------------------------------------------------------------------ *)
\* the moves the claim calls no-ops: at most one item, id absent, or the
\* clamped toIndex is the item's index or the index after it (0-based)
NoOpMove(items, id, toIndex) ==
  \/ Len(items) <= 1
  \/ PosOf(items, id) = 0
  \/ Clamp(toIndex, Len(items)) = PosOf(items, id) - 1
  \/ Clamp(toIndex, Len(items)) = PosOf(items, id)

\* C11: moveToIndex(id, toIndex) of a list Model (checklist, team,
\* timeline) leaves the stored list as it was and writes nothing when the
\* list has at most one item, when id is absent, or when the clamped
\* toIndex is the item's current index or that index + 1.
C11_MoveNoOp ==
  (ListCallIs("moveToIndex") /\ NoOpMove(ListPrev, listCall.id, listCall.toIndex))
    => (ListNow = ListPrev /\ store = storeBefore /\ Writes = 0)

(* ------------------------------------------------------------------ *)
(* C12                                                                 *)
(* ------------------------------------------------------------------ *)
\* b holds the items of a, each as often as a does
IsPermutation(a, b) ==
  /\ Len(a) = Len(b)
  /\ \A k \in 1..Len(a) : CountOf(b, a[k]) = CountOf(a, a[k])

\* id sits where the claim says after moveToIndex(id, toIndex) on prev: at
\* the end when the clamped index is the length, otherwise immediately
\* before the item that was at that index (when that item is id itself,
\* nothing moves)
LandsBefore(prev, now, id, toIndex) ==
  LET at == Clamp(toIndex, Len(prev)) IN
  IF at = Len(prev) THEN now[Len(now)].id = id
  ELSE IF prev[at + 1].id = id THEN now = prev
  ELSE PosOf(now, id) + 1 = PosOf(now, prev[at + 1].id)

\* C12: moveToIndex(id, toIndex) of an item of the list yields a
\* permutation of the same items in which the other items keep their
\* relative order and the moved item sits immediately before the item
\* that was at index clamp(toIndex, 0, length), or at the end when that
\* index is the length.
C12_MovePermutation ==
  (ListCallIs("moveToIndex") /\ PosOf(ListPrev, listCall.id) > 0)
    => /\ ~result.threw
       /\ IsPermutation(ListPrev, ListNow)
       /\ WithoutId(ListNow, listCall.id) = WithoutId(ListPrev, listCall.id)
       /\ LandsBefore(ListPrev, ListNow, listCall.id, listCall.toIndex)

\* an item of a list of three or more was moved to another place, not to
\* the end
C12_Witness ==
  /\ ListCallIs("moveToIndex")
  /\ Len(ListPrev) >= 3
  /\ PosOf(ListPrev, listCall.id) > 0
  /\ PosOf(ListNow, listCall.id) # PosOf(ListPrev, listCall.id)
  /\ PosOf(ListNow, listCall.id) < Len(ListNow)

(* ------------------------------------------------------------------ *)
(* C13                                                                 *)
(* ------------------------------------------------------------------ *)
\* store s has an active project whose document is an object
HasActiveProject(s) ==
  /\ readActiveProjectModelOrNull(s).ok
  /\ readActiveProjectModelOrNull(s).model.t = "object"

C14_EmptyTextDeletes ==
  /\ (ListCallIs("updateText") /\ Trim(listCall.first) = <<>> /\ ~result.threw)
       => ListNow = WithoutId(ListPrev, listCall.id)
  /\ listCall.m = "checklist"
       => \A k \in 1..Len(ListNow) : ListNow[k].text # <<>>
  /\ (LastCallIs("updateText") /\ Trim(lastCall.text) = <<>> /\ lastCall.id # END_ID)
       => Now = WithoutId(Prev, lastCall.id)
  /\ \A k \in 1..Len(Now) : Now[k].id # END_ID => Now[k].text # <<>>

\* updateText with a blank text took an item out of a checklist that had
\* another one
C14_Witness ==
  /\ ListCallIs("updateText")
  /\ Trim(listCall.first) = <<>>
  /\ PosOf(ListPrev, listCall.id) > 0
  /\ Len(ListPrev) >= 2
  /\ Len(ListNow) = Len(ListPrev) - 1

(* ------------------------------------------------------------------ *)
(* C15                                                                 *)
(* ------------------------------------------------------------------ *)
\* C15: add with a text that is empty after trimming (team and timeline:
\* with both fields empty) changes nothing: the store stays as it is,
\* nothing is written, no change notification is sent and nothing is
\* thrown.
C15_EmptyAddNoOp ==
  /\ ( /\ ListCallIs("add")
       /\ Trim(listCall.first) = <<>>
       /\ listCall.m \in PairModels => Trim(listCall.second) = <<>> )
       => (store = storeBefore /\ log = <<>> /\ ~result.threw)
  /\ (LastCallIs("add") /\ Trim(lastCall.text) = <<>>)
       => (content = before /\ log = <<>>)

\* the timeline's add was called with two blank fields on a project that
\* has no timeline items stored
C15_Witness ==
  /\ ListCallIs("add")
  /\ listCall.m = "timeline"
  /\ Trim(listCall.first) = <<>>
  /\ Trim(listCall.second) = <<>>
  /\ HasActiveProject(storeBefore)
  /\ ListPrev = <<>>

(* ------------------------------------------------------------------ *)
(* C16                                                                 *)
(* ------------------------------------------------------------------ *)
MutatingOps == {"add", "update", "updateText", "remove", "moveToIndex", "toggle"}

\* C16: every add, update, remove, move or toggle of a list Model that
\* changes the list does exactly one setComponentContent write and
\* dispatches exactly one "change" notification, after the write; the
\* timeline included.
C16_OneWriteOneChange ==
  (listCall.op \in MutatingOps /\ ListNow # ListPrev)
    => log = <<"write", "change">>

(* ------------------------------------------------------------------ *)
(* C17                                                                 *)
(* ------------------------------------------------------------------ *)
\* the stored content of component m is absent or malformed in store s:
\* no active pointer or no id in it, no document or an unparseable one
\* under the id, a document that is not an object, or content that is not
\* an array
AbsentOrMalformed(s, m) ==
  LET ctx == readActiveProjectModelOrNull(s) IN
  \/ ~ctx.ok
  \/ ctx.model.t # "object"
  \/ \E k \in 1..Len(ctx.model.components) :
        /\ ctx.model.components[k].name = m
        /\ ctx.model.components[k].content.t # "array"

\* C17: getAll() of a list Model never throws, and returns the empty
\* sequence when the stored content is absent or malformed.
C17_GetAllNeverThrows ==
  ListCallIs("getAll")
    => /\ ~result.threw
       /\ AbsentOrMalformed(storeBefore, listCall.m) => result.value = JArr(<<>>)

(* ------------------------------------------------------------------ *)
(* C18                                                                 *)
(* ------------------------------------------------------------------ *)
\* the content stored for component name in the active document of s,
\* as it is stored; undefined when the document has no such component
RawContent(s, name) ==
  LET doc == readActiveProjectModelOrNull(s).model
      hits == {k \in 1..Len(doc.components) : doc.components[k].name = name}
  IN IF hits = {} THEN JUndef
     ELSE doc.components[CHOOSE k \in hits : \A j \in hits : k <= j].content

\* C18: with an active project whose document exists, after
\* setComponentContent(name, X) with an item list X,
\* getComponentContent(name) returns X, and the content of every other
\* component of the project is what it was.
C18_RoundTrip ==
  ( /\ ListCallIs("setComponentContent")
    /\ listCall.m # ""
    /\ listCall.value.t = "array"
    /\ HasActiveProject(storeBefore) )
    => /\ ~result.threw
       /\ ~getComponentContent(store, listCall.m).threw
       /\ getComponentContent(store, listCall.m).value = listCall.value
       /\ \A other \in ComponentNames \ {listCall.m} :
            RawContent(store, other) = RawContent(storeBefore, other)

\* a list with an item was written for a component while another
\* component of the document had items of its own
C18_Witness ==
  /\ ListCallIs("setComponentContent")
  /\ HasActiveProject(storeBefore)
  /\ listCall.value.t = "array"
  /\ listCall.value.items # <<>>
  /\ \E other \in ComponentNames \ {listCall.m} :
        /\ RawContent(storeBefore, other).t = "array"
        /\ RawContent(storeBefore, other).items # <<>>

(* ------------------------------------------------------------------ *)
(* C19                                                                 *)
(* ------------------------------------------------------------------ *)
\* no active project: no pointer or one that does not parse, no id in it,
\* or no readable document under the id
NoActiveProject(s) == ~readActiveProjectModelOrNull(s).ok

\* C19: getComponentContent(name) never writes to the store, also when
\* the active document has no entry for the component; with no active
\* project it returns null.
C19_ReadNeverWrites ==
  ListCallIs("getComponentContent")
    => /\ store = storeBefore
       /\ (listCall.m # "" /\ NoActiveProject(storeBefore))
            => (~result.threw /\ result.value = JNull)

\* the content of a component that the active document has no entry for
\* was read
C19_Witness ==
  /\ ListCallIs("getComponentContent")
  /\ listCall.m # ""
  /\ HasActiveProject(storeBefore)
  /\ RawContent(storeBefore, listCall.m) = JUndef
  /\ result.value = JArr(<<>>)

(* ------------------------------------------------------------------ *)
(* C20                                                                 *)
(* ------------------------------------------------------------------ *)
\* the three cases the claim names: the pointer is absent, its id is null,
\* or it names a project whose document is missing
PointerAbsent(s) == s[STORAGE_KEY_ACTIVE_PROJECT] = Absent
PointerIdNull(s) == s[STORAGE_KEY_ACTIVE_PROJECT] = JSONstringify(ActivePointer(NULL))
DocumentMissing(s) ==
  \E id \in ProjectIds :
    /\ s[STORAGE_KEY_ACTIVE_PROJECT] = JSONstringify(ActivePointer(id))
    /\ s[keyForProject(id)] = Absent

\* C20: setComponentContent(name, content) with no active project throws
\* and leaves every key of the store as it was.
C20_WriteWithoutProjectThrows ==
  ( /\ ListCallIs("setComponentContent")
    /\ PointerAbsent(storeBefore) \/ PointerIdNull(storeBefore) \/ DocumentMissing(storeBefore) )
    => (result.threw /\ store = storeBefore)

\* a write was attempted while the pointer named a project without a
\* document
C20_Witness ==
  /\ ListCallIs("setComponentContent")
  /\ listCall.m # ""
  /\ listCall.value.t = "array"
  /\ DocumentMissing(storeBefore)
  /\ result.threw

(* ------------------------------------------------------------------ *)
(* C21                                                                 *)
(* ------------------------------------------------------------------ *)
\* the component entries of the active document of s
EntriesOf(s) == componentsOf(readActiveProjectModelOrNull(s).model)

\* how many entries are called name
NamedCount(components, name) ==
  Cardinality({k \in 1..Len(components) : components[k].name = name})

\* C21: with an active project whose document has no entry called name,
\* setComponentContent(name, content) with a JSON value as content does
\* not throw; the document then has the entries it had, unchanged and in
\* the same places, followed by one new entry with that name, the
\* capitalised name as title, position = number of entries before + 1 and
\* the given content; one entry only carries the name.
C21_CreatesMissingEntry ==
  ( /\ ListCallIs("setComponentContent")
    /\ listCall.m # ""
    /\ listCall.value.t # "undefined"
    /\ HasActiveProject(storeBefore)
    /\ NamedCount(EntriesOf(storeBefore), listCall.m) = 0 )
    => /\ ~result.threw
       /\ HasActiveProject(store)
       /\ Len(EntriesOf(store)) = Len(EntriesOf(storeBefore)) + 1
       /\ SubSeq(EntriesOf(store), 1, Len(EntriesOf(storeBefore))) = EntriesOf(storeBefore)
       /\ EntriesOf(store)[Len(EntriesOf(store))] =
            [name |-> listCall.m, title |-> Capitalized[listCall.m],
             content |-> listCall.value, mounted |-> FALSE,
             position |-> Len(EntriesOf(storeBefore)) + 1]
       /\ NamedCount(EntriesOf(store), listCall.m) = 1

\* content was set for a component the document, which had other
\* entries, had no entry for
C21_Witness ==
  /\ ListCallIs("setComponentContent")
  /\ HasActiveProject(storeBefore)
  /\ listCall.m # ""
  /\ listCall.value.t = "array"
  /\ EntriesOf(storeBefore) # <<>>
  /\ NamedCount(EntriesOf(storeBefore), listCall.m) = 0
  /\ NamedCount(EntriesOf(store), listCall.m) = 1

(* ------------------------------------------------------------------ *)
(* C22                                                                 *)
(* ------------------------------------------------------------------ *)
\* what the store holds for the document of project id
DocOf(s, id) == getItem(s, keyForProject(id))

\* the entries of the project list of s whose id is not id, in order
RECURSIVE Others(_, _)
Others(projects, id) ==
  IF projects = <<>> THEN <<>>
  ELSE (IF Head(projects).id = id THEN <<>> ELSE <<Head(projects)>>)
         \o Others(Tail(projects), id)

OtherEntries(s, id) == Others(readProjectList(s), id)

\* the active pointer of s names project id
PointerNames(s, id) == pointsAt(readActiveProject(s), id)

\* C22: deleteProject(id) with an id removes the document of id and every
\* entry of the project list with that id; the documents of the other
\* projects and the other entries of the list are what they were, in the
\* same order; the active pointer reads id = null afterwards when it
\* named id before, and its key is untouched when it did not.
C22_DeleteProject ==
  (ListCallIs("deleteProject") /\ listCall.id # "")
    => /\ ~result.threw
       /\ DocOf(store, listCall.id) = Absent
       /\ \A other \in ProjectIds \ {listCall.id} :
            DocOf(store, other) = DocOf(storeBefore, other)
       /\ readProjectList(store) = OtherEntries(storeBefore, listCall.id)
       /\ IF PointerNames(storeBefore, listCall.id)
          THEN readActiveProject(store) = ActivePointer(NULL)
          ELSE store[STORAGE_KEY_ACTIVE_PROJECT] = storeBefore[STORAGE_KEY_ACTIVE_PROJECT]

\* the project deleted was the active one, had a document, and was listed
\* twice next to another project
C22_Witness ==
  /\ ListCallIs("deleteProject")
  /\ listCall.id # ""
  /\ PointerNames(storeBefore, listCall.id)
  /\ DocOf(storeBefore, listCall.id).t = "json"
  /\ Len(readProjectList(storeBefore)) = 3
  /\ Len(readProjectList(store)) = 1

(* ------------------------------------------------------------------ *)
(* C23                                                                 *)
(* ------------------------------------------------------------------ *)
\* the calls that read the active pointer
PointerReaders ==
  {"getActiveProject", "getActiveProjectId", "isProjectActive",
   "deleteProject", "renameProjectInList"}

\* C23: when the activeProject key was never set, getActiveProject()
\* returns { id: null }, getActiveProjectId() returns null and
\* isProjectActive(id) returns false, and neither they nor deleteProject
\* and renameProjectInList create the key.
C23_ReadNeverCreatesPointer ==
  ( /\ listCall.op \in PointerReaders
    /\ storeBefore[STORAGE_KEY_ACTIVE_PROJECT] = Absent )
    => /\ store[STORAGE_KEY_ACTIVE_PROJECT] = Absent
       /\ ListCallIs("getActiveProject") => result.value = ActivePointer(NULL)
       /\ ListCallIs("getActiveProjectId") => result.value = JNull
       /\ ListCallIs("isProjectActive") => result.value = JBool(FALSE)

\* a listed project was renamed while the activeProject key had never
\* been set
C23_Witness ==
  /\ ListCallIs("renameProjectInList")
  /\ storeBefore[STORAGE_KEY_ACTIVE_PROJECT] = Absent
  /\ ~result.threw
  /\ readProjectList(store) # readProjectList(storeBefore)

(* ------------------------------------------------------------------ *)
(* C24                                                                 *)
(* ------------------------------------------------------------------ *)
\* the document of project id is missing from s, or is not JSON
DocMissingOrMalformed(s, id) == DocOf(s, id) \in {Absent, Garbage}

\* C24: for a project whose document is missing or is not JSON,
\* getProject(id) returns null without throwing, and the
\* app:select-project listener ends without throwing and leaves the
\* active pointer and the project list as they were.
C24_MissingDocumentNotFound ==
  ( /\ listCall.op \in {"getProject", "selectProject"}
    /\ listCall.id # ""
    /\ DocMissingOrMalformed(storeBefore, listCall.id) )
    => /\ ~result.threw
       /\ ListCallIs("getProject") => result.value = JNull
       /\ store[STORAGE_KEY_ACTIVE_PROJECT] = storeBefore[STORAGE_KEY_ACTIVE_PROJECT]
       /\ store[STORAGE_KEY_PROJECT_LIST] = storeBefore[STORAGE_KEY_PROJECT_LIST]

(* ------------------------------------------------------------------ *)
(* C25                                                                 *)
(* ------------------------------------------------------------------ *)
\* C25: when a mutating call of a list Model ends with the exception of a
\* failed write, the stored content of its component is what it was before
\* the call and no "change" notification was dispatched.
C25_FailureAtomicity ==
  (listCall.op \in MutatingOps /\ result.threw)
    => /\ ListNow = ListPrev
       /\ Changes = 0

(* ------------------------------------------------------------------ *)
(* C30                                                                 *)
(* ------------------------------------------------------------------ *)
\* the last call dropped an activity of the schedule at its own index or
\* at the index after it (0-based, as the drop index is)
DropInPlace ==
  /\ LastCallIs("moveToIndexWithReflow")
  /\ PosOf(Activities(Prev), lastCall.id) > 0
  /\ lastCall.toIndex \in {PosOf(Activities(Prev), lastCall.id) - 1,
                           PosOf(Activities(Prev), lastCall.id)}

\* C30: moveToIndexWithReflow(id, i) with i the activity's index or its
\* index + 1 leaves the schedule as getAll() reports it unchanged: the
\* order, the time of every activity and the END item; so does dragging
\* the only activity of a schedule.
C30_DropInPlaceNoOp ==
  DropInPlace => Now = Prev

(* ------------------------------------------------------------------ *)
(* C26                                                                 *)
(* ------------------------------------------------------------------ *)
\* the last event ended a gesture: a drop, inside a list or outside every
\* list, or the dragend (which also ends a gesture that left the list and
\* was never dropped)
TerminalEvent == lastEvent.type \in {"drop", "dragend"}

\* list ul shows no guide and no dragging class
NoMarks(ul) ==
  /\ \A id \in ItemIds(ul) : guideAttr[ul][id] = "none"
  /\ guideClass[ul] = {}
  /\ draggingClass[ul] = {}

\* C26: after the drop or the dragend of a gesture, activeUL and activeAPI
\* are null, the draggingId of the list the gesture started in is null,
\* and no item of that list carries a guide marker or the dragging class.
C26_DragStateReset ==
  TerminalEvent
    => /\ activeUL = NULL
       /\ activeAPI = NULL
       /\ draggingId[gesture.ul] = NULL
       /\ NoMarks(gesture.ul)

(* ------------------------------------------------------------------ *)
(* C27                                                                 *)
(* ------------------------------------------------------------------ *)
\* the items of list ul that carry a guide marker
Marked(ul) ==
  {id \in ItemIds(ul) : guideAttr[ul][id] # "none"}
    \cup {mark[1] : mark \in guideClass[ul]}

\* the lists whose listeners, or the document's on their behalf, act on
\* drag events
ActiveContexts == {ul \in DragLists : activeUL = ul \/ activeAPI = ul}

\* C27: whatever drag events were dispatched, in whatever order, at most
\* one list is the active drag context, and at most one item of that list
\* carries a guide marker.
C27_OneContextOneGuide ==
  /\ Cardinality(ActiveContexts) <= 1
  /\ \A ul \in ActiveContexts :
       /\ Cardinality(Marked(ul)) <= 1
       /\ Cardinality(guideClass[ul]) <= 1

\* the guide was painted on an item of the active list, then a dragover
\* elsewhere painted it on another
C27_Witness ==
  /\ lastEvent.type = "dragover"
  /\ calls >= 3
  /\ activeUL = "A"
  /\ guideAttr["A"]["y"] = "after"
  /\ guideClass["A"] = {<<"y", "after">>}
  /\ draggingClass["A"] # {}

(* ------------------------------------------------------------------ *)
(* C28                                                                 *)
(* ------------------------------------------------------------------ *)
\* the midline of a row, doubled
Midline2(li) == 2 * li.top + li.height

\* the eligible rows of list ul, by the layout alone
Eligible(ul) == SelectSeq(RowsOf(ul), LAMBDA li : ~li.ignored)

\* the index the claim gives for a pointer at height y over list ul
RECURSIVE FirstBelow(_, _, _)
FirstBelow(rows, y, k) ==
  IF k > Len(rows) THEN Len(rows)
  ELSE IF 2 * y < Midline2(rows[k]) THEN k - 1
  ELSE FirstBelow(rows, y, k + 1)

ClaimedIndex(ul, y) ==
  IF y <= getRect(ul).top + containerEdgePx THEN 0
  ELSE IF y >= getRect(ul).bottom - containerEdgePx THEN Len(Eligible(ul))
  ELSE FirstBelow(Eligible(ul), y, 1)

\* C28: the index a drop passes to onReorder is 0 when the pointer is
\* within containerEdgePx of the top edge of the list (or above it), the
\* number of eligible items when it is within containerEdgePx of the
\* bottom edge (or below it), and otherwise the index of the first
\* eligible item whose midline is below the pointer, or the number of
\* eligible items when there is none; ignored rows do not count.
C28_DropIndex ==
  (lastEvent.type = "drop" /\ reorders # <<>>)
    => reorders[Len(reorders)].toIndex
         = ClaimedIndex(reorders[Len(reorders)].ul, lastEvent.y)

\* a drop between the edge zones of list A, below the new-entry row and
\* above the midline of the item after it
C28_Witness ==
  /\ lastEvent.type = "drop"
  /\ lastEvent.ul = "A"
  /\ lastEvent.y = 70
  /\ reorders = <<[ul |-> "A", id |-> "x", toIndex |-> 1]>>

(* ------------------------------------------------------------------ *)
(* C29                                                                 *)
(* ------------------------------------------------------------------ *)
\* C29: in a gesture, onReorder is invoked at most once, and only that of
\* the list in which the gesture started, with the id of the row on which
\* it started.
C29_SameListOnce ==
  /\ Len(reorders) <= 1
  /\ \A k \in 1..Len(reorders) :
       /\ reorders[k].ul = gesture.ul
       /\ reorders[k].id = gesture.id

\* a drag started on the second item of list A was dropped over list B,
\* and list A's onReorder was invoked
C29_Witness ==
  /\ lastEvent.type = "drop"
  /\ lastEvent.ul = "B"
  /\ gesture.ul = "A"
  /\ gesture.id = "y"
  /\ Len(reorders) = 1

(* ------------------------------------------------------------------ *)
(* C31                                                                 *)
(* ------------------------------------------------------------------ *)
\* minutes since midnight of a time of day
MinuteOfDay(t) == t.h * 60 + t.m

\* the time of day that is k minutes after midnight, as HH:MM
ClockAt(k) == Clock((k % MinutesPerDay) \div 60, (k % MinutesPerDay) % 60)

\* C31: for all times of day a and b and every minute count n >= 0,
\* diffForward(a, b) lies in 0..1439 and is (b - a) mod 1440,
\* addMinutes(a, n) is (a + n) mod 1440 written as zero-padded HH:MM, and
\* addMinutes(a, diffForward(a, b)) is b; diffForward("23:30", "00:15") is
\* 45 and addMinutes("23:30", 60) is "00:30".
C31_WrapAround ==
  /\ listCall.op = "diffForward" =>
       /\ result \in 0..(MinutesPerDay - 1)
       /\ result = (MinuteOfDay(listCall.b) - MinuteOfDay(listCall.a)) % MinutesPerDay
       /\ (listCall.a = TimeOfDay(23, 30) /\ listCall.b = TimeOfDay(0, 15)) => result = 45
  /\ listCall.op = "addMinutes" =>
       /\ result = ClockAt(MinuteOfDay(listCall.a) + listCall.n)
       /\ (listCall.a = TimeOfDay(23, 30) /\ listCall.n = 60) =>
            result = <<"0", "0", ":", "3", "0">>
  /\ listCall.op = "addDiffForward" => result = Clock(listCall.b.h, listCall.b.m)

\* the forward difference of a pair that wraps past midnight was computed
C31_Witness ==
  /\ listCall.op = "diffForward"
  /\ listCall.a = TimeOfDay(23, 30)
  /\ listCall.b = TimeOfDay(0, 15)
  /\ result = 45

(* ------------------------------------------------------------------ *)
(* C32                                                                 *)
(* ------------------------------------------------------------------ *)
\* the texts of the END items of a list of items
SentinelTexts(items) == { items[k].text : k \in { j \in 1..Len(items) : items[j].id = END_ID } }

\* C32: the sentinel is never blank: the sentinel getAll() returns has a
\* non-empty text in every state, and after updateText(END_ID, text) with
\* any text the sentinel, stored and returned, carries the trimmed text,
\* or "End" when the trimmed text is empty.
C32_SentinelNeverBlank ==
  /\ <<>> \notin SentinelTexts(Now)
  /\ (LastCallIs("updateText") /\ lastCall.id = END_ID) =>
       /\ SentinelTexts(content) = SentinelTexts(Now)
       /\ SentinelTexts(Now) \subseteq
            { IF Trim(lastCall.text) = <<>> THEN EndText ELSE Trim(lastCall.text) }

\* the sentinel was cleared with a text of white space, and reads "End"
C32_Witness ==
  /\ LastCallIs("updateText")
  /\ lastCall.id = END_ID
  /\ Trim(lastCall.text) = <<>>
  /\ hasEnd(Prev)
  /\ SentinelTexts(Now) = {EndText}

(* ------------------------------------------------------------------ *)
(* C33                                                                 *)
(* ------------------------------------------------------------------ *)
\* the ids listed in the project list of s
ListedIds(s) == { readProjectList(s)[k].id : k \in 1..Len(readProjectList(s)) }

\* no project is active: the pointer is missing, does not parse, or
\* carries id = null
PointerUnset(s) ==
  \/ s[STORAGE_KEY_ACTIVE_PROJECT].t # "json"
  \/ s[STORAGE_KEY_ACTIVE_PROJECT].v.t # "object"
  \/ s[STORAGE_KEY_ACTIVE_PROJECT].v.id = NULL

\* startApp() ran on store s without an active project, and the Prompt API
\* was not available
FellBack(s) ==
  /\ ListCallIs("startApp")
  /\ PointerUnset(s)
  /\ listCall.value \in {JStr("no-api"), JStr("unavailable")}

\* C33: when startApp() runs without an active project and the Prompt API
\* is unavailable, creation is not blocked: when startApp() completes, a
\* new project built from the example is stored under project:<id>, the
\* project list has an entry with that id, and the active pointer names it.
C33_FallbackCreates ==
  FellBack(storeBefore) =>
    /\ ~result.threw
    /\ DocOf(store, listCall.id).t = "json"
    /\ DocOf(store, listCall.id).v.id = listCall.id
    /\ DocOf(store, listCall.id).v.components = modelExample.components
    /\ DocOf(storeBefore, listCall.id) = Absent
    /\ listCall.id \in ListedIds(store)
    /\ PointerNames(store, listCall.id)

\* the fallback ran on a store whose pointer and project list did not parse
C33_Witness ==
  /\ FellBack(storeBefore)
  /\ storeBefore[STORAGE_KEY_ACTIVE_PROJECT] = Garbage
  /\ storeBefore[STORAGE_KEY_PROJECT_LIST] = Garbage
  /\ PointerNames(store, listCall.id)

(* ------------------------------------------------------------------ *)
(* C34                                                                 *)
(* ------------------------------------------------------------------ *)
\* the ids of the project list of s, in the order of the list
ListedIdSeq(s) == [k \in 1..Len(readProjectList(s)) |-> readProjectList(s)[k].id]

\* C34: starting from an empty project index, after any sequence of
\* addProjectToList, removeProjectFromList, renameProjectInList,
\* touchProjectInList and deleteProject calls the index has at most one
\* entry per project id; an upsert of a listed id leaves every entry at its
\* position and gives the entry of that id the new title, and an upsert of
\* an id that is not listed appends its entry.
C34_IndexUnique ==
  /\ \A id \in ProjectIds : CountOf(ListedIdSeq(store), id) <= 1
  /\ (ListCallIs("addProjectToList") /\ ~result.threw) =>
       /\ ListedIdSeq(store) =
            IF listCall.id \in ListedIds(storeBefore)
            THEN ListedIdSeq(storeBefore)
            ELSE Append(ListedIdSeq(storeBefore), listCall.id)
       /\ \A k \in 1..Len(readProjectList(store)) :
            readProjectList(store)[k].id = listCall.id =>
              JStr(readProjectList(store)[k].title) = listCall.value

\* an upsert of the first of two listed projects changed its title in place
C34_Witness ==
  /\ ListCallIs("addProjectToList")
  /\ ~result.threw
  /\ Len(readProjectList(storeBefore)) = 2
  /\ readProjectList(storeBefore)[1].id = listCall.id
  /\ readProjectList(store)[1].id = listCall.id
  /\ readProjectList(store)[1].title # readProjectList(storeBefore)[1].title

(* ------------------------------------------------------------------ *)
(* C35                                                                 *)
(* ------------------------------------------------------------------ *)
\* the gap invariant: with an activity and the sentinel present, the
\* sentinel is at least MIN_GAP_MINUTES after the last activity
GapInvariant(items) ==
  (Activities(items) # <<>> /\ hasEnd(items)) =>
    Forward(Activities(items)[Len(Activities(items))].time, findEnd(items).time)
      >= MIN_GAP_MINUTES

\* remove(id) took an ordinary activity out of a schedule that satisfied
\* the gap invariant, and left an activity
RemovedActivity ==
  /\ LastCallIs("remove")
  /\ lastCall.id # END_ID
  /\ PosOf(Prev, lastCall.id) > 0
  /\ GapInvariant(Prev)
  /\ Activities(Now) # <<>>

\* C35: in a reachable schedule that satisfies the gap invariant, after
\* remove(id) of an ordinary activity that leaves at least one activity,
\* the forward difference from the new last activity's time to the
\* sentinel's time is still at least 15 minutes.
C35_RemoveKeepsGap ==
  RemovedActivity => GapInvariant(Now)

(* ------------------------------------------------------------------ *)
(* C36                                                                 *)
(* ------------------------------------------------------------------ *)
\* moveToIndexWithReflow was called on a stored schedule that has its
\* sentinel and an activity, every stored time a time of day
ReflowOnValid ==
  /\ LastCallIs("moveToIndexWithReflow")
  /\ hasEnd(before)
  /\ Activities(before) # <<>>
  /\ \A k \in 1..Len(before) : ValidTime(before[k].time)

\* C36: when a sentinel exists before moveToIndexWithReflow and all stored
\* times are valid, the first activity's time after the move is the first
\* activity's time before it, and the sentinel's time after the move is the
\* sentinel's time before it.
C36_ReflowBoundaries ==
  ReflowOnValid =>
    /\ Activities(Now) # <<>>
    /\ hasEnd(Now)
    /\ Activities(Now)[1].time = Activities(Prev)[1].time
    /\ findEnd(Now).time = findEnd(Prev).time

\* the move wrote a new order in which the first activity is another one
\* and an activity has a new time
C36_Witness ==
  /\ ReflowOnValid
  /\ Wrote
  /\ Activities(Now)[1].id # Activities(Prev)[1].id
  /\ \E k \in 1..Len(Now) : \E j \in 1..Len(Prev) :
       Now[k].id = Prev[j].id /\ Now[k].time # Prev[j].time

(* ------------------------------------------------------------------ *)
(* C37                                                                 *)
(* ------------------------------------------------------------------ *)
\* the ids a pane shows for the checklist stored in s, in order
PaneIds(s, pane) ==
  [k \in 1..Len(renderPane(StoredItems(s, "checklist"), pane)) |->
     renderPane(StoredItems(s, "checklist"), pane)[k].id]

\* ids with x taken out and put back before the id that was at index k
\* (0-based), last when k is the length
DroppedAt(ids, x, k) ==
  SelectSeq(SubSeq(ids, 1, k), LAMBDA i : i # x)
    \o <<x>>
    \o SelectSeq(SubSeq(ids, k + 1, Len(ids)), LAMBDA i : i # x)

\* the pane of the last drop
DropPane == IF listCall.value = JStr("completed") THEN "completed" ELSE "pending"

\* position (1-based) of the dragged item in its pane before the drop
DraggedPanePos ==
  PosOf(renderPane(StoredItems(storeBefore, "checklist"), DropPane), listCall.id)

\* C37: after dropping item x of a pane at pane index k, k neither x's pane
\* index nor the one after it, the pane rendered again shows x immediately
\* before the item that was at pane index k (last when k is the pane's
\* length) and the other items of the pane in their previous order.
C37_PaneDrop ==
  (/\ ListCallIs("paneDrop")
   /\ listCall.toIndex \notin {DraggedPanePos - 1, DraggedPanePos})
    => PaneIds(store, DropPane)
         = DroppedAt(PaneIds(storeBefore, DropPane), listCall.id, listCall.toIndex)

(* ------------------------------------------------------------------ *)
(* C38                                                                 *)
(* ------------------------------------------------------------------ *)
\* the names of the mounted components of the document stored for id
MountedNames(s, id) ==
  IF DocOf(s, id).t # "json" THEN {}
  ELSE { DocOf(s, id).v.components[k].name :
           k \in { j \in 1..Len(DocOf(s, id).v.components) :
                     DocOf(s, id).v.components[j].state = "mounted" } }

\* the project the active pointer names, NULL when it names none
ActiveId(s) ==
  IF PointerUnset(s) THEN NULL ELSE s[STORAGE_KEY_ACTIVE_PROJECT].v.id

\* C38: after any sequence of app:select-project events, once every
\* pending mount has completed, every component host of the coordinator is
\* tagged with the id of the active project, and the components mounted
\* are those of that project.
C38_MountsFollowPointer ==
  (pendingMounts = <<>> /\ ActiveId(store) # NULL) =>
    /\ \A h \in hosts : h.projectId = ActiveId(store)
    /\ { h.mounted : h \in hosts } = MountedNames(store, ActiveId(store))

(* ------------------------------------------------------------------ *)
(* C39                                                                 *)
(* ------------------------------------------------------------------ *)
\* an onCreate call has finished
CreateFinished == listCall.op = "onCreate"

\* C39: in every list Controller, whenever an onCreate call has finished
\* (model.add wrote, did nothing, or threw because the storage write
\* failed), createInFlight is false again, so that a later create gesture
\* is not dropped.
C39_CreateGuardReleased == CreateFinished => ~createInFlight

(* ------------------------------------------------------------------ *)
(* C40                                                                 *)
(* ------------------------------------------------------------------ *)
\* remove(id) took the only item of the stored list
RemovedLastItem ==
  /\ ListCallIs("remove")
  /\ ~result.threw
  /\ Len(ListPrev) = 1
  /\ ListPrev[1].id = listCall.id

\* C40: getAll() of a list Model (checklist, team, timeline, and the
\* lists that share the checklist's code), in any state, leaves
\* localStorage as it was and dispatches no "change" notification; and
\* remove of the last remaining item leaves an empty stored list.
C40_ReadsArePure ==
  /\ ListCallIs("getAll") => (store = storeBefore /\ log = <<>>)
  /\ RemovedLastItem => ListNow = <<>>

====
